---- MODULE Spec2Model ----
(***************************************************************************)
(* Streaming chat-completion client of crates/ollama:                      *)
(*   stream_chat_completion        (ollama.rs)        raw-socket console   *)
(*                                                    path and HTTP-client *)
(*                                                    path                 *)
(*   stream_chat_completion_direct (ollama_direct.rs) raw socket + channel *)
(* Text is a sequence of Unicode code points, a byte string a sequence of  *)
(* numbers 0..255.                                                         *)
(***************************************************************************)
EXTENDS Integers, Sequences, FiniteSets, TLC

\* ------------------------------------------------------------------ bounds
\* Most lines a response body is built from.
MaxLines == 3
\* Most bytes one socket / body read returns (the code's buffers hold 256 or
\* 8192 bytes; what matters is that a read may end anywhere).
MaxRead == 2
\* Most items the model lets wait in the hand-off channel (the code's
\* channels are unbounded).
MaxQueue == 2

\* ------------------------------------------------------------------ text
Range(s) == {s[i] : i \in 1..Len(s)}

StartsWith(s, p) == Len(s) >= Len(p) /\ SubSeq(s, 1, Len(p)) = p

Contains(s, p) == \E i \in 1..(Len(s) - Len(p) + 1) : SubSeq(s, i, i + Len(p) - 1) = p

\* Index of the first occurrence of p in s, 0 when there is none (str::find).
Find(s, p) ==
  IF Contains(s, p)
  THEN CHOOSE i \in 1..(Len(s) - Len(p) + 1) :
         /\ SubSeq(s, i, i + Len(p) - 1) = p
         /\ \A j \in 1..(i - 1) : SubSeq(s, j, j + Len(p) - 1) # p
  ELSE 0

RECURSIVE Concat(_)
Concat(ss) == IF ss = <<>> THEN <<>> ELSE Head(ss) \o Concat(Tail(ss))

ReplacementChar == 65533

\* String::from_utf8_lossy for one- and two-byte sequences: an ASCII byte is
\* itself, a lead byte followed by a continuation byte is one code point, and
\* every other byte (a lead byte cut off from its continuation, a stray
\* continuation byte) becomes U+FFFD.
RECURSIVE from_utf8_lossy(_)
from_utf8_lossy(bs) ==
  IF bs = <<>> THEN <<>>
  ELSE LET b == Head(bs) IN
    IF b < 128 THEN <<b>> \o from_utf8_lossy(Tail(bs))
    ELSE IF b \in 194..223 /\ Len(bs) >= 2 /\ bs[2] \in 128..191
      THEN <<(b - 192) * 64 + (bs[2] - 128)>> \o from_utf8_lossy(SubSeq(bs, 3, Len(bs)))
      ELSE <<ReplacementChar>> \o from_utf8_lossy(Tail(bs))

\* char::is_whitespace on the code points the model uses.
IsWhitespace(c) == c \in {9, 10, 11, 12, 13, 32, 133, 160}

RECURSIVE TrimStart(_)
TrimStart(s) ==
  IF s # <<>> /\ IsWhitespace(Head(s)) THEN TrimStart(Tail(s)) ELSE s

RECURSIVE TrimEnd(_)
TrimEnd(s) ==
  IF s # <<>> /\ IsWhitespace(s[Len(s)]) THEN TrimEnd(SubSeq(s, 1, Len(s) - 1)) ELSE s

\* str::trim
Trim(s) == TrimEnd(TrimStart(s))

\* char::is_ascii_hexdigit
IsAsciiHexDigit(c) == c \in (48..57) \cup (65..70) \cup (97..102)

\* line.chars().all(|c| c.is_ascii_hexdigit())
AllHex(line) == \A i \in 1..Len(line) : IsAsciiHexDigit(line[i])

\* ------------------------------------------------------------------ framer
\* buffer.find('\n'), 0 for None
NewlinePos(buffer) ==
  LET hits == {i \in 1..Len(buffer) : buffer[i] = 10}
  IN IF hits = {} THEN 0 ELSE CHOOSE i \in hits : \A j \in hits : i <= j

HasLine(buffer) == NewlinePos(buffer) # 0

\* let line = buffer[..newline_pos].trim()
NextLine(buffer) == Trim(SubSeq(buffer, 1, NewlinePos(buffer) - 1))

\* buffer = buffer[newline_pos + 1..]
RestAfterLine(buffer) == SubSeq(buffer, NewlinePos(buffer) + 1, Len(buffer))

\* Skipped without the chunk-size test: only the empty line is dropped.
SkippedEmptyOnly(line) == line = <<>>

\* The two `continue`s before the decoder: an empty line, a line of hex digits.
Skipped(line) == line = <<>> \/ AllHex(line)

\* ------------------------------------------------------------------ decoder
\* serde_json::from_str::<ChatResponseDelta>(&line), on the model's records:
\* a record is '{' text '}' with no brace in the text; the text is the
\* message content and the letter 't' in it stands for "done": true.
\* Anything else fails to parse.
Decodable(line) ==
  /\ Len(line) >= 2
  /\ line[1] = 123
  /\ line[Len(line)] = 125
  /\ \A i \in 2..(Len(line) - 1) : line[i] \notin {123, 125}

ChatResponseDelta(line) ==
  LET content == SubSeq(line, 2, Len(line) - 1)
  IN [content |-> content, done |-> 116 \in Range(content)]

OkItem(line) == [ok |-> TRUE, delta |-> ChatResponseDelta(line)]

ErrItem == [ok |-> FALSE]

\* ------------------------------------------------------------------ routing
\* URL text, one character per element.
SchemeHttp   == <<"h","t","t","p",":","/","/">>
SchemeHttps  == <<"h","t","t","p","s",":","/","/">>
Localhost    == <<"l","o","c","a","l","h","o","s","t">>
Ip127        == <<"1","2","7",".","0",".","0",".","1">>
ExampleHost  == <<"e","x",".","i","o">>
PortSuffix   == <<":","1","1","4","3","4">>

NoKey == "None"
SomeKey == "sk"

\* let is_local = api_url.starts_with("http://localhost")
\*     || api_url.starts_with("http://127.0.0.1")
\*     || (api_url.starts_with("http://") && api_url.contains("localhost"));
is_local(api_url) ==
  \/ StartsWith(api_url, SchemeHttp \o Localhost)
  \/ StartsWith(api_url, SchemeHttp \o Ip127)
  \/ (StartsWith(api_url, SchemeHttp) /\ Contains(api_url, Localhost))

\* if is_local && api_key.is_none() { raw socket } else { HTTP client }
UsesRawSocket(api_url, api_key) == is_local(api_url) /\ api_key = NoKey

\* url.host_str(): the text between "://" and the first ':' or '/' after it.
HostStr(api_url) ==
  LET sep   == Find(api_url, <<":","/","/">>)
      after == SubSeq(api_url, sep + 3, Len(api_url))
      stops == {i \in 1..Len(after) : after[i] \in {":", "/"}}
      end   == IF stops = {} THEN Len(after)
               ELSE (CHOOSE i \in stops : \A j \in stops : i <= j) - 1
  IN SubSeq(after, 1, end)

\* ------------------------------------------------------------------ inputs
\* The fragments a response body is built from:
\*   {a}      a record
\*   {t}      a record with "done": true
\*   {é}      a record whose content is a two-byte character (0xC3 0xA9)
\*   {a       a line that does not parse
\*   a\r\n\r  what chunked transfer encoding puts between two chunks, read as
\*            lines: a chunk-size line and a blank line
RecordA == <<123, 97, 125>>

RecordDone == <<123, 116, 125>>

RecordTwoByte == <<123, 195, 169, 125>>

BrokenLine == <<123, 97>>

ChunkFraming == <<97, 13, 10, 13>>

LineTemplates == {RecordA, RecordDone, RecordTwoByte, BrokenLine, ChunkFraming}

\* The sequences of up to n elements of S.
RECURSIVE SeqsUpTo(_, _)
SeqsUpTo(S, n) ==
  IF n = 0 THEN {<<>>}
  ELSE LET shorter == SeqsUpTo(S, n - 1)
       IN shorter \cup {Append(s, x) : s \in {t \in shorter : Len(t) = n - 1},
                                       x \in S}

\* A body is up to MaxLines different fragments, each followed by '\n'.
BodyOf(ls) == Concat([i \in 1..Len(ls) |-> ls[i] \o <<10>>])

BodyLines == {ls \in SeqsUpTo(LineTemplates, MaxLines) :
                \A i, j \in 1..Len(ls) : ls[i] = ls[j] => i = j}

\* What the raw socket delivers: a header block, the separator, the body; or
\* a response cut off before the separator.
HeaderBlock == <<72, 13, 10, 13, 10>>

Truncated == <<72, 13, 10>>

Separator == <<13, 10, 13, 10>>

\* OLLAMA_API_URL
LocalUrl == SchemeHttp \o Localhost \o PortSuffix

RemoteUrl == SchemeHttps \o ExampleHost

\* The requests of the streaming specification.
Requests ==
  { [api |-> "stream_chat_completion", api_url |-> LocalUrl, api_key |-> NoKey],
    [api |-> "stream_chat_completion", api_url |-> RemoteUrl, api_key |-> SomeKey],
    [api |-> "stream_chat_completion_direct", api_url |-> LocalUrl, api_key |-> NoKey] }

\* The requests of the routing specification: every endpoint shape with and
\* without a credential.
RoutingUrls ==
  { scheme \o host \o port \o path :
      scheme \in {SchemeHttp, SchemeHttps},
      host \in {Localhost, Ip127, ExampleHost, Localhost \o <<".">> \o ExampleHost,
                <<"m","y">> \o Localhost},
      port \in {<<>>, PortSuffix},
      path \in {<<>>, <<"/">> \o Localhost} }

RoutingRequests ==
  { [api |-> "stream_chat_completion", api_url |-> u, api_key |-> k] :
      u \in RoutingUrls, k \in {NoKey, SomeKey} }

\* ------------------------------------------------------------------ state
VARIABLES
  request,    \* the call's arguments: api, api_url, api_key
  lines,      \* the fragments of the response body the server sends for it
  wire,       \* the bytes the connection has not yet delivered
  path,       \* the transport in use: "none", "raw", "http", "direct"
  pc,         \* the caller: "idle", "connect", "write", "headers" (direct
              \* constructor), "streaming", "ended", "cancelled", "failed"
  reader,     \* the reader thread: "none", "connect", "write", "headers",
              \* "body", "stopped"
  buffer,     \* response_buffer while headers are read, then the framer's buffer
  chan,       \* the hand-off channel's queue
  yielded,    \* the items the caller has received from the stream
  forwarded,  \* the lines handed to the decoder so far (count of them: count)
  err,        \* the transport failure met: "none", "connect", "write",
              \* "headers_eof", "headers_read", "read", "send", "status",
              \* "error_body"
  status,     \* response.status() of the HTTP client's response, 0 before it
  failure,    \* the Err the constructor returned: kind "none", "io", "status"
  call,       \* a call of one of the crate's pure functions: op and arguments
  result,     \* what that call returned, NoResult before it has run
  tabs,       \* AgentTabs.tabs: the tabs of the agent panel, in order
  active_tab_index,  \* AgentTabs.active_tab_index (counted from 0)
  returned,   \* the last call on the tab manager: method, arguments, value
  unsent,     \* the bytes at the end of the body the connection closes before
              \* sending: 0 for a response sent whole
  peer,       \* the objects of a second request active at the same time (its
              \* arguments, connection, buffer, channel, sequence), NoPeer
              \* when the call is alone
  project,    \* the Project the create_directory tool works on: the number of
              \* its worktrees and their entries
  task,       \* a run of CreateDirectoryTool: where it is, its input, the
              \* project path it resolved, the parents still to create
  events,     \* the create_entry operations issued and finished, in order
  output      \* what the run returned, None while it has not

\* The response body, as bytes.
body == BodyOf(lines)

\* The part of the body that reaches the connection before it closes.
sent == SubSeq(body, 1, Len(body) - unsent)

\* The tab manager and the last call made on it.
tabVars == <<tabs, active_tab_index, returned>>

\* The create_directory tool and its project.
toolVars == <<project, task, events, output>>

vars == <<tabVars, toolVars, peer, unsent, call, result, status, failure, request, lines, wire, path, pc, reader, buffer, chan, yielded, forwarded, err>>

\* The statuses the HTTP client's response may carry.
Statuses == {200, 404, 500}

\* StatusCode::is_success
IsSuccess(code) == code \in 200..299

\* Whether read_to_string accepts the bytes: they are UTF-8 exactly when the
\* lossy conversion had nothing to replace.
ValidUtf8(bs) == ReplacementChar \notin Range(from_utf8_lossy(bs))

\* The error without the body text.
StatusFailureNoBody(code, text) == [kind |-> "status", status |-> code, body |-> <<>>]

\* The Err values of the constructors: an I/O or client error passed on by
\* `?`, and the anyhow::bail! of a non-success status with status and body.
NoFailure == [kind |-> "none", status |-> 0, body |-> <<>>]

IoFailure == [kind |-> "io", status |-> 0, body |-> <<>>]

StatusFailure(code, text) == [kind |-> "status", status |-> code, body |-> text]

\* AgentTabs::new: no tab, active index 0.
AgentTabsNew == [tabs |-> <<>>, active_tab_index |-> 0]

\* No method of the tab manager has been called yet.
NoReturn == [op |-> "none", args |-> <<>>, value |-> <<>>]

\* No run of the create_directory tool: a project of one empty worktree.
NoTool == [pc |-> "none"]

ToolIdle ==
  /\ project = [worktrees |-> 1, entries |-> {}]
  /\ task = NoTool
  /\ events = <<>>
  /\ output = <<>>

\* The tab manager before its first call.
TabsInit ==
  /\ tabs = AgentTabsNew.tabs
  /\ active_tab_index = AgentTabsNew.active_tab_index
  /\ returned = NoReturn

\* No pure function is called while a stream is followed.
NoCall == [op |-> "none"]

NoResult == [returned |-> FALSE]

\* No second request.
NoPeer == [request |-> [api |-> "none"]]

\* The state before the call: a request, the body the server answers it with,
\* and how much of that body the connection loses.
InitCut(reqs, bodies, cuts) ==
  /\ peer = NoPeer
  /\ unsent \in cuts
  /\ call = NoCall
  /\ result = NoResult
  /\ request \in reqs
  /\ lines \in bodies
  /\ wire = <<>>
  /\ path = "none"
  /\ pc = "idle"
  /\ reader = "none"
  /\ buffer = <<>>
  /\ chan = <<>>
  /\ yielded = <<>>
  /\ forwarded = <<>>
  /\ err = "none"
  /\ status = 0
  /\ failure = NoFailure
  /\ TabsInit
  /\ ToolIdle

\* The same with the response sent whole.
InitWith(reqs, bodies) == InitCut(reqs, bodies, {0})

Init == InitWith(Requests, BodyLines)

\* ------------------------------------------------------------------ transport
\* The chunks one read may return: 1..MaxRead of the bytes still on the wire.
ReadSizes == 1..(IF Len(wire) < MaxRead THEN Len(wire) ELSE MaxRead)

Chunk(n) == SubSeq(wire, 1, n)

AfterChunk(n) == SubSeq(wire, n + 1, Len(wire))

\* The receiving end of the hand-off channel exists while the caller holds the
\* stream it was moved into.
ReceiverAlive == pc = "streaming"

\* response_buffer.push_str(..); if response_buffer.contains("\r\n\r\n") {
\*   response_buffer = response_buffer.splitn(2, "\r\n\r\n")[1] }
HeadersDone(text) == Contains(text, Separator)

AfterHeaders(text) == SubSeq(text, Find(text, Separator) + Len(Separator), Len(text))

\* ------------------------------------------------------------------ stream_chat_completion
\* is_local && api_key.is_none(): the reader thread is spawned and an empty
\* stream is returned at once.
CallRaw ==
  /\ pc = "idle"
  /\ request.api = "stream_chat_completion"
  /\ UsesRawSocket(request.api_url, request.api_key)
  /\ path' = "raw"
  /\ reader' = "connect"
  /\ pc' = "streaming"
  /\ \E resp \in {HeaderBlock \o sent, Truncated} : wire' = resp
  /\ UNCHANGED <<tabVars, toolVars, peer, unsent, status, failure, call, result, request, lines, buffer, chan, yielded, forwarded, err>>

\* else-branch, client.send(..).await? succeeds with a success status: the
\* reader thread is spawned on the response body and the receiver returned.
CallHttp ==
  /\ pc = "idle"
  /\ request.api = "stream_chat_completion"
  /\ ~UsesRawSocket(request.api_url, request.api_key)
  /\ path' = "http"
  /\ \E code \in Statuses : IsSuccess(code) /\ status' = code
  /\ reader' = "body"
  /\ pc' = "streaming"
  /\ wire' = sent
  /\ UNCHANGED <<tabVars, toolVars, peer, unsent, failure, call, result, request, lines, buffer, chan, yielded, forwarded, err>>

\* else-branch, client.send(..).await? fails: the constructor returns the error.
CallHttpSendError ==
  /\ pc = "idle"
  /\ request.api = "stream_chat_completion"
  /\ ~UsesRawSocket(request.api_url, request.api_key)
  /\ path' = "http"
  /\ pc' = "failed"
  /\ err' = "send"
  /\ failure' = IoFailure
  /\ UNCHANGED <<tabVars, toolVars, peer, unsent, status, call, result, request, lines, wire, reader, buffer, chan, yielded, forwarded>>

\* else-branch, the status is not a success: the body is read to its end as
\* text and the constructor bails with status and body; when the read fails
\* or the body is not UTF-8, read_to_string(..).await? returns that error.
CallHttpStatusError ==
  /\ pc = "idle"
  /\ request.api = "stream_chat_completion"
  /\ ~UsesRawSocket(request.api_url, request.api_key)
  /\ path' = "http"
  /\ pc' = "failed"
  /\ \E code \in Statuses :
       /\ ~IsSuccess(code)
       /\ status' = code
       /\ \/ /\ ValidUtf8(body)
             /\ err' = "status"
             /\ failure' = StatusFailure(code, from_utf8_lossy(body))
          \/ /\ err' = "error_body"
             /\ failure' = IoFailure
  /\ UNCHANGED <<tabVars, toolVars, peer, unsent, call, result, request, lines, wire, reader, buffer, chan, yielded, forwarded>>

\* --- the raw-socket reader thread (spawn_ollama_reader_thread)
RawConnect ==
  /\ path = "raw" /\ reader = "connect"
  /\ \/ reader' = "write" /\ err' = err
     \/ reader' = "stopped" /\ err' = "connect"
  /\ UNCHANGED <<tabVars, toolVars, peer, unsent, status, failure, call, result, request, lines, wire, path, pc, buffer, chan, yielded, forwarded>>

RawWrite ==
  /\ path = "raw" /\ reader = "write"
  /\ \/ reader' = "headers" /\ err' = err
     \/ reader' = "stopped" /\ err' = "write"
  /\ UNCHANGED <<tabVars, toolVars, peer, unsent, status, failure, call, result, request, lines, wire, path, pc, buffer, chan, yielded, forwarded>>

\* The header loop: Ok(0) and Err(e) return from the thread, Ok(n) appends and
\* looks for the separator.
RawHeaders ==
  /\ path = "raw" /\ reader = "headers"
  /\ \/ /\ wire = <<>>
        /\ reader' = "stopped" /\ err' = "headers_eof"
        /\ UNCHANGED <<wire, buffer>>
     \/ /\ reader' = "stopped" /\ err' = "headers_read"
        /\ UNCHANGED <<wire, buffer>>
     \/ \E n \in ReadSizes :
          LET text == buffer \o from_utf8_lossy(Chunk(n)) IN
          /\ wire' = AfterChunk(n)
          /\ IF HeadersDone(text)
             THEN buffer' = AfterHeaders(text) /\ reader' = "body"
             ELSE buffer' = text /\ reader' = reader
          /\ err' = err
  /\ UNCHANGED <<tabVars, toolVars, peer, unsent, status, failure, call, result, request, lines, path, pc, chan, yielded, forwarded>>

\* One turn of the body loop with a newline in the buffer: the record is
\* decoded and printed, nothing is sent to the caller.
RawLine ==
  /\ path = "raw" /\ reader = "body"
  /\ HasLine(buffer)
  /\ buffer' = RestAfterLine(buffer)
  /\ forwarded' = IF Skipped(NextLine(buffer)) THEN forwarded
                  ELSE Append(forwarded, NextLine(buffer))
  /\ UNCHANGED <<tabVars, toolVars, peer, unsent, status, failure, call, result, request, lines, wire, path, pc, reader, chan, yielded, err>>

\* One turn of the body loop without a newline in the buffer: a socket read.
RawRead ==
  /\ path = "raw" /\ reader = "body"
  /\ ~HasLine(buffer)
  /\ \/ /\ wire = <<>>
        /\ reader' = "stopped"
        /\ UNCHANGED <<wire, buffer, err>>
     \/ /\ reader' = "stopped" /\ err' = "read"
        /\ UNCHANGED <<wire, buffer>>
     \/ \E n \in ReadSizes :
          /\ wire' = AfterChunk(n)
          /\ buffer' = buffer \o from_utf8_lossy(Chunk(n))
          /\ UNCHANGED <<reader, err>>
  /\ UNCHANGED <<tabVars, toolVars, peer, unsent, status, failure, call, result, request, lines, path, pc, chan, yielded, forwarded>>

\* --- the HTTP-client reader thread (std::thread::spawn + smol::block_on)
\* What a decoded record does: tx.unbounded_send(result), and break if the
\* receiver is gone.
HttpSend(line) ==
  IF ReceiverAlive
  THEN /\ Len(chan) < MaxQueue
       /\ chan' = Append(chan, OkItem(line))
       /\ reader' = reader
  ELSE /\ chan' = chan
       /\ reader' = "stopped"

\* HttpParseFailure with `break` in place of `continue`.
HttpParseFailureBreaks == chan' = chan /\ reader' = "stopped"

\* What a line that fails to parse does: log::debug! and continue.
HttpParseFailure == chan' = chan /\ reader' = reader

HttpLine ==
  /\ path = "http" /\ reader = "body"
  /\ HasLine(buffer)
  /\ buffer' = RestAfterLine(buffer)
  /\ LET line == NextLine(buffer) IN
       IF Skipped(line)
       THEN UNCHANGED <<forwarded, chan, reader>>
       ELSE /\ forwarded' = Append(forwarded, line)
            /\ IF Decodable(line) THEN HttpSend(line) ELSE HttpParseFailure
  /\ UNCHANGED <<tabVars, toolVars, peer, unsent, status, failure, call, result, request, lines, wire, path, pc, yielded, err>>

\* HttpRead that at the end of input hands the unterminated rest of the
\* buffer to the framer as a last line.
HttpReadFlushing ==
  /\ path = "http" /\ reader = "body"
  /\ ~HasLine(buffer)
  /\ \/ /\ wire = <<>>
        /\ IF buffer # <<>>
           THEN buffer' = buffer \o <<10>> /\ reader' = reader
           ELSE buffer' = buffer /\ reader' = "stopped"
        /\ UNCHANGED <<wire, chan, err>>
     \/ /\ reader' = "stopped" /\ err' = "read"
        /\ IF ReceiverAlive
           THEN Len(chan) < MaxQueue /\ chan' = Append(chan, ErrItem)
           ELSE chan' = chan
        /\ UNCHANGED <<wire, buffer>>
     \/ \E n \in ReadSizes :
          /\ wire' = AfterChunk(n)
          /\ buffer' = buffer \o from_utf8_lossy(Chunk(n))
          /\ UNCHANGED <<reader, chan, err>>
  /\ UNCHANGED <<tabVars, toolVars, peer, unsent, status, failure, call, result, request, lines, path, pc, yielded, forwarded>>

HttpRead ==
  /\ path = "http" /\ reader = "body"
  /\ ~HasLine(buffer)
  /\ \/ /\ wire = <<>>
        /\ reader' = "stopped"
        /\ UNCHANGED <<wire, buffer, chan, err>>
     \/ /\ reader' = "stopped" /\ err' = "read"
        /\ IF ReceiverAlive
           THEN Len(chan) < MaxQueue /\ chan' = Append(chan, ErrItem)
           ELSE chan' = chan
        /\ UNCHANGED <<wire, buffer>>
     \/ \E n \in ReadSizes :
          /\ wire' = AfterChunk(n)
          /\ buffer' = buffer \o from_utf8_lossy(Chunk(n))
          /\ UNCHANGED <<reader, chan, err>>
  /\ UNCHANGED <<tabVars, toolVars, peer, unsent, status, failure, call, result, request, lines, path, pc, yielded, forwarded>>

\* --- the caller polling the returned stream
\* HttpPoll with a sender that outlives the reader thread: the stream never
\* returns None.
HttpPollSenderKept ==
  /\ path = "http" /\ pc = "streaming"
  /\ chan # <<>>
  /\ yielded' = Append(yielded, Head(chan))
  /\ chan' = Tail(chan)
  /\ UNCHANGED <<tabVars, toolVars, peer, unsent, status, failure, call, result, request, lines, wire, path, pc, reader, buffer, forwarded, err>>

\* rx.map(|result| result): the next queued item, or the end once the sender
\* is dropped and the queue is empty.
HttpPoll ==
  /\ path = "http" /\ pc = "streaming"
  /\ \/ /\ chan # <<>>
        /\ yielded' = Append(yielded, Head(chan))
        /\ chan' = Tail(chan)
        /\ pc' = pc
     \/ /\ chan = <<>> /\ reader = "stopped"
        /\ pc' = "ended"
        /\ UNCHANGED <<yielded, chan>>
  /\ UNCHANGED <<tabVars, toolVars, peer, unsent, status, failure, call, result, request, lines, wire, path, reader, buffer, forwarded, err>>

\* futures::stream::empty(): the first poll ends the stream.
RawPoll ==
  /\ path = "raw" /\ pc = "streaming"
  /\ pc' = "ended"
  /\ UNCHANGED <<tabVars, toolVars, peer, unsent, status, failure, call, result, request, lines, wire, path, reader, buffer, chan, yielded, forwarded, err>>

\* The caller drops the stream; a receiver in it is dropped with its queue.
Cancel ==
  /\ pc = "streaming"
  /\ pc' = "cancelled"
  /\ chan' = <<>>
  /\ UNCHANGED <<tabVars, toolVars, peer, unsent, status, failure, call, result, request, lines, wire, path, reader, buffer, yielded, forwarded, err>>

\* ------------------------------------------------------------------ stream_chat_completion_direct
\* The constructor runs connect, write and the header loop itself and only
\* then spawns the reader thread.
CallDirect ==
  /\ pc = "idle"
  /\ request.api = "stream_chat_completion_direct"
  /\ path' = "direct"
  /\ pc' = "connect"
  /\ \E resp \in {HeaderBlock \o sent, Truncated} : wire' = resp
  /\ UNCHANGED <<tabVars, toolVars, peer, unsent, status, failure, call, result, request, lines, reader, buffer, chan, yielded, forwarded, err>>

\* StdTcpStream::connect(&addr)?
DirectConnect ==
  /\ path = "direct" /\ pc = "connect"
  /\ \/ pc' = "write" /\ err' = err /\ failure' = failure
     \/ pc' = "failed" /\ err' = "connect" /\ failure' = IoFailure
  /\ UNCHANGED <<tabVars, toolVars, peer, unsent, status, call, result, request, lines, wire, path, reader, buffer, chan, yielded, forwarded>>

\* tcp_stream.write_all(..)?; tcp_stream.flush()?
DirectWrite ==
  /\ path = "direct" /\ pc = "write"
  /\ \/ pc' = "headers" /\ err' = err /\ failure' = failure
     \/ pc' = "failed" /\ err' = "write" /\ failure' = IoFailure
  /\ UNCHANGED <<tabVars, toolVars, peer, unsent, status, call, result, request, lines, wire, path, reader, buffer, chan, yielded, forwarded>>

\* The header loop: read(..)? and bail!("Connection closed before headers")
\* fail the constructor; once the separator is seen the thread is spawned and
\* the stream returned.
DirectHeaders ==
  /\ path = "direct" /\ pc = "headers"
  /\ \/ /\ wire = <<>>
        /\ pc' = "failed" /\ err' = "headers_eof" /\ failure' = IoFailure
        /\ UNCHANGED <<wire, buffer, reader>>
     \/ /\ pc' = "failed" /\ err' = "headers_read" /\ failure' = IoFailure
        /\ UNCHANGED <<wire, buffer, reader>>
     \/ \E n \in ReadSizes :
          LET text == buffer \o from_utf8_lossy(Chunk(n)) IN
          /\ wire' = AfterChunk(n)
          /\ IF HeadersDone(text)
             THEN buffer' = AfterHeaders(text) /\ pc' = "streaming" /\ reader' = "body"
             ELSE buffer' = text /\ pc' = pc /\ reader' = reader
          /\ err' = err /\ failure' = failure
  /\ UNCHANGED <<tabVars, toolVars, peer, unsent, status, call, result, request, lines, path, chan, yielded, forwarded>>

\* tx.try_send(item) on the unbounded channel: queued while the receiver
\* lives, an error once it is dropped.
TrySend(item) ==
  IF ReceiverAlive
  THEN Len(chan) < MaxQueue /\ chan' = Append(chan, item)
  ELSE chan' = chan

\* DirectRead on a channel created once for all requests: with a second
\* request active, the bytes read go to the channel that request receives from.
DirectReadSharedChannel ==
  /\ path = "direct" /\ reader = "body"
  /\ wire # <<>>
  /\ \E n \in ReadSizes :
       /\ wire' = AfterChunk(n)
       /\ IF peer = NoPeer
          THEN TrySend([ok |-> TRUE, data |-> Chunk(n)]) /\ peer' = peer
          ELSE /\ Len(peer.chan) < MaxQueue
               /\ peer' = [peer EXCEPT !.chan = Append(@, [ok |-> TRUE, data |-> Chunk(n)])]
               /\ chan' = chan
  /\ UNCHANGED <<tabVars, toolVars, unsent, status, failure, call, result, request, lines, path, pc, reader, buffer, yielded, forwarded, err>>

\* The reader thread: read, then hand the bytes (an empty vector at end of
\* input, the error on failure) to the channel.
DirectRead ==
  /\ path = "direct" /\ reader = "body"
  /\ \/ /\ wire = <<>>
        /\ TrySend([ok |-> TRUE, data |-> <<>>])
        /\ reader' = "stopped"
        /\ UNCHANGED <<wire, err>>
     \/ /\ TrySend(ErrItem)
        /\ reader' = "stopped" /\ err' = "read"
        /\ UNCHANGED wire
     \/ \E n \in ReadSizes :
          /\ wire' = AfterChunk(n)
          /\ TrySend([ok |-> TRUE, data |-> Chunk(n)])
          /\ reader' = IF ReceiverAlive THEN reader ELSE "stopped"
          /\ err' = err
  /\ UNCHANGED <<tabVars, toolVars, peer, unsent, status, failure, call, result, request, lines, path, pc, buffer, yielded, forwarded>>

\* What a decoded record does in the unfold: return Some((Ok(delta), state)).
DirectYield(line) == yielded' = Append(yielded, OkItem(line))

\* What a line that fails to parse does: log::debug! and continue.
DirectParseFailure == yielded' = yielded

\* One turn of the unfold loop with a newline in the buffer.
DirectLine ==
  /\ path = "direct" /\ pc = "streaming"
  /\ HasLine(buffer)
  /\ buffer' = RestAfterLine(buffer)
  /\ LET line == NextLine(buffer) IN
       IF Skipped(line)
       THEN UNCHANGED <<forwarded, yielded>>
       ELSE /\ forwarded' = Append(forwarded, line)
            /\ IF Decodable(line) THEN DirectYield(line) ELSE DirectParseFailure
  /\ UNCHANGED <<tabVars, toolVars, peer, unsent, status, failure, call, result, request, lines, wire, path, pc, reader, chan, err>>

\* DirectRecv that takes from the channel whether or not a line is buffered.
DirectRecvEager ==
  /\ path = "direct" /\ pc = "streaming"
  /\ \/ /\ chan # <<>> /\ Head(chan).ok /\ Head(chan).data # <<>>
        /\ buffer' = buffer \o from_utf8_lossy(Head(chan).data)
        /\ chan' = Tail(chan)
        /\ UNCHANGED <<pc, yielded>>
     \/ /\ chan # <<>> /\ Head(chan).ok /\ Head(chan).data = <<>>
        /\ pc' = "ended"
        /\ chan' = <<>>
        /\ UNCHANGED <<buffer, yielded>>
     \/ /\ chan # <<>> /\ ~Head(chan).ok
        /\ yielded' = Append(yielded, ErrItem)
        /\ chan' = Tail(chan)
        /\ UNCHANGED <<pc, buffer>>
     \/ /\ chan = <<>> /\ reader = "stopped"
        /\ pc' = "ended"
        /\ UNCHANGED <<buffer, chan, yielded>>
  /\ UNCHANGED <<tabVars, toolVars, peer, unsent, status, failure, call, result, request, lines, wire, path, reader, forwarded, err>>

\* One turn of the unfold loop without a newline in the buffer: rx.recv().
DirectRecv ==
  /\ path = "direct" /\ pc = "streaming"
  /\ ~HasLine(buffer)
  /\ \/ /\ chan # <<>> /\ Head(chan).ok /\ Head(chan).data # <<>>
        /\ buffer' = buffer \o from_utf8_lossy(Head(chan).data)
        /\ chan' = Tail(chan)
        /\ UNCHANGED <<pc, yielded>>
     \/ /\ chan # <<>> /\ Head(chan).ok /\ Head(chan).data = <<>>
        /\ pc' = "ended"
        /\ chan' = <<>>
        /\ UNCHANGED <<buffer, yielded>>
     \/ /\ chan # <<>> /\ ~Head(chan).ok
        /\ yielded' = Append(yielded, ErrItem)
        /\ chan' = Tail(chan)
        /\ UNCHANGED <<pc, buffer>>
     \/ /\ chan = <<>> /\ reader = "stopped"
        /\ pc' = "ended"
        /\ UNCHANGED <<buffer, chan, yielded>>
  /\ UNCHANGED <<tabVars, toolVars, peer, unsent, status, failure, call, result, request, lines, wire, path, reader, forwarded, err>>

\* ------------------------------------------------------------------ specifications
Next ==
  \/ CallRaw \/ CallHttp \/ CallHttpSendError \/ CallHttpStatusError
  \/ RawConnect \/ RawWrite \/ RawHeaders \/ RawLine \/ RawRead \/ RawPoll
  \/ HttpLine \/ HttpRead \/ HttpPoll
  \/ CallDirect \/ DirectConnect \/ DirectWrite \/ DirectHeaders
  \/ DirectRead \/ DirectLine \/ DirectRecv
  \/ Cancel

Spec == Init /\ [][Next]_vars

\* Routing alone: every endpoint shape, with and without a credential.
RoutingInit == InitWith(RoutingRequests, {<<>>})

RoutingNext == CallRaw \/ CallHttp \/ CallHttpSendError \/ CallHttpStatusError

RoutingSpec == RoutingInit /\ [][RoutingNext]_vars

\* ------------------------------------------------------------------ reference results
Last(s) == s[Len(s)]

IsPrefix(s, t) == Len(s) <= Len(t) /\ SubSeq(t, 1, Len(s)) = s

\* The lines one feed of the whole text hands to the decoder.
RECURSIVE FrameAll(_)
FrameAll(text) ==
  IF ~HasLine(text) THEN <<>>
  ELSE (IF Skipped(NextLine(text)) THEN <<>> ELSE <<NextLine(text)>>)
       \o FrameAll(RestAfterLine(text))

SingleFeed(bytes) == FrameAll(from_utf8_lossy(bytes))

\* The items the lines that parse decode to, in order.
RECURSIVE DecodedItems(_)
DecodedItems(ls) ==
  IF ls = <<>> THEN <<>>
  ELSE (IF Decodable(Head(ls)) THEN <<OkItem(Head(ls))>> ELSE <<>>)
       \o DecodedItems(Tail(ls))

\* The transport reached the end of the response without a failure and the
\* framer has worked through everything it delivered.
StreamComplete ==
  /\ err = "none"
  /\ \/ path = "raw" /\ reader = "stopped"
     \/ path = "http" /\ reader = "stopped" /\ wire = <<>> /\ ~HasLine(buffer)
     \/ path = "direct" /\ pc = "ended"

Delivers == path \in {"http", "direct"}

\* ------------------------------------------------------------------ claims
\* C1: chunk-boundary independence of the line framer. Whatever way the
\* reads split the response, once the whole of it has been framed the lines
\* handed to the decoder are the lines one feed of the whole body hands over.
C1_ChunkIndependence == StreamComplete => forwarded = SingleFeed(body)

\* C2: a line that does not parse neither ends the stream nor shows up as an
\* error. For a body of a record, a malformed line and a second record, on
\* the transports that deliver to the caller: without an I/O failure no item
\* is an error, the caller never holds more than the two records' deltas, in
\* body order, and when the stream has ended it holds exactly those two (each
\* the decoding of its record as framed, and of the record's own text when
\* that text is ASCII).
WellFormedLines == {l \in LineTemplates : Decodable(from_utf8_lossy(l))}

MalformedLines ==
  {l \in LineTemplates : ~Decodable(Trim(from_utf8_lossy(l)))
                         /\ ~Skipped(Trim(from_utf8_lossy(l)))}

IsAscii(bytes) == \A i \in 1..Len(bytes) : bytes[i] < 128

DoneYielded == \E i \in 1..Len(yielded) : yielded[i].ok /\ yielded[i].delta.done

C3_DoneEndsStream ==
  [][DoneYielded => (yielded' = yielded /\ ~HttpRead /\ ~DirectRead)]_vars

\* C4: once the caller has dropped the stream no further delta is delivered
\* and the reader context is torn down: the first thing it would hand off
\* after the cancellation (bytes it read on the direct path, a record it
\* decoded on the other two) stops it and closes its connection.
C4_CancelTearsDown ==
  [][pc = "cancelled" =>
       /\ yielded' = yielded
       /\ (path = "direct" /\ wire' # wire) => reader' = "stopped"
       /\ (path \in {"raw", "http"} /\ forwarded' # forwarded
             /\ Decodable(Last(forwarded'))) => reader' = "stopped"]_vars

\* C5: the raw socket is chosen only for an endpoint whose host is loop-back
\* or localhost and only without a credential; every other request goes
\* through the HTTP client.
LoopbackHost(api_url) == HostStr(api_url) \in {Localhost, Ip127}

C5_RawOnlyForLoopback ==
  path = "raw" => (LoopbackHost(request.api_url) /\ request.api_key = NoKey)

\* C6: a failure of the chosen transport to connect, to send the request or
\* to find the header/body separator reaches the caller as an error, from
\* the constructor or as the last item of the stream; the stream never ends
\* empty and apparently successful.
SetupFailed == err \in {"connect", "write", "headers_eof", "headers_read", "send"}

C6_FailureSurfaced ==
  (SetupFailed /\ pc = "ended") => (yielded # <<>> /\ ~Last(yielded).ok)

\* C7: the hand-off is back-pressured: the reader context puts an item into
\* the channel only when the consumer has drained the items before it.
C7_BackPressure == [][Len(chan') > Len(chan) => chan = <<>>]_vars

\* C8: both transports publish to the caller: when a stream has run to its
\* end without failure, the caller holds the delta of every record that was
\* decoded, in order, whichever transport carried the body.
C8_DecodedIsPublished ==
  (StreamComplete /\ pc = "ended") => yielded = DecodedItems(forwarded)

\* C9: ordered, loss-free delivery on the HTTP-client transport and on
\* stream_chat_completion_direct: a stream that ended without I/O error has
\* yielded exactly the deltas of the body's newline-terminated, non-empty,
\* not-all-hex lines that parse, in body order, each once.
C9_OrderedLossFree ==
  (Delivers /\ pc = "ended" /\ err = "none") =>
    yielded = DecodedItems(SingleFeed(body))

\* C10: a line that after trimming is empty or all hex digits is never
\* handed to the decoder and never becomes an item or an error of the
\* stream: every line handed over is trimmed, non-empty and not all hex,
\* there are no more of them than the body has such lines, every delta the
\* caller holds is the decoding of one of them, and an error item needs an
\* I/O failure.
C10_MarkersNeverForwarded ==
  /\ \A i \in 1..Len(forwarded) :
       /\ forwarded[i] = Trim(forwarded[i])
       /\ forwarded[i] # <<>>
       /\ ~AllHex(forwarded[i])
  /\ Len(forwarded) <= Len(SingleFeed(body))
  /\ \A i \in 1..Len(yielded) :
       IF yielded[i].ok
       THEN \E j \in 1..Len(forwarded) : yielded[i] = OkItem(forwarded[j])
       ELSE err = "read"

\* A body holding a chunk-size line, a blank line and a record has been
\* streamed to its end: only the record reached the decoder and the caller.
C10_Witness ==
  /\ Delivers /\ pc = "ended" /\ err = "none"
  /\ lines = <<ChunkFraming, RecordA>>
  /\ forwarded = <<RecordA>>
  /\ yielded = <<OkItem(RecordA)>>

\* C11: a line that fails to decode never reaches the caller, and a read
\* error in mid-stream does, as the last item of the stream: an error item is
\* never followed by another item, once it is yielded the reader has stopped
\* and nothing is queued, and a stream that has ended after a read error
\* holds the error as its last item.
ReadFailed == err = "read"

ErrorYielded == yielded # <<>> /\ ~Last(yielded).ok

C11_ErrorIsFinalItem ==
  /\ \A i \in 1..Len(yielded) : ~yielded[i].ok => (i = Len(yielded) /\ ReadFailed)
  /\ ErrorYielded => (reader = "stopped" /\ chan = <<>>)
  /\ (ReadFailed /\ pc = "ended") => ErrorYielded

\* C12: on the HTTP-client path a response with a non-success status never
\* yields a sequence and starts no reader context: the call fails. When the
\* body could be read to its end as text the error carries the status of the
\* response and the whole body text; when reading the body failed the error
\* is that of the read.
NonSuccess == path = "http" /\ status # 0 /\ ~IsSuccess(status)

C12_StatusErrorCarriesBody ==
  NonSuccess =>
    /\ pc = "failed" /\ reader = "none" /\ chan = <<>> /\ yielded = <<>>
    /\ err = "status" =>
         /\ failure.kind = "status"
         /\ failure.status = status
         /\ failure.body = from_utf8_lossy(body)
    /\ err = "error_body" => failure = IoFailure
    /\ err \in {"status", "error_body"}

\* A response with status 500 and a body of two lines has been turned into
\* the error.
C12_Witness ==
  /\ NonSuccess /\ status = 500 /\ err = "status"
  /\ lines = <<RecordA, BrokenLine>>
  /\ failure.body = BodyOf(lines)

\* C12 as the spec words it: every non-success response ends in an error
\* that carries the status and the body text.
C12_AlwaysStatusAndBody ==
  NonSuccess =>
    (failure.kind = "status" /\ failure.status = status
       /\ failure.body = from_utf8_lossy(body))

\* ------------------------------------------------------------------ model catalog
\* Option<T>: None is the empty sequence, Some(x) the sequence of x alone.
None == <<>>

Some(x) == <<x>>

\* The whole name taken for the family.
FamilyOfWholeName(name) == name

\* name.split(':').next().unwrap(): the text before the first ':'.
FamilyOf(name) ==
  LET hits == {i \in 1..Len(name) : name[i] = ":"}
  IN IF hits = {} THEN name
     ELSE SubSeq(name, 1, (CHOOSE i \in hits : \A j \in hits : i <= j) - 1)

LatestSuffix == <<":", "l", "a", "t", "e", "s", "t">>

\* A strip_suffix that never finds the suffix.
strip_suffix_never(s, suffix) == None

\* str::strip_suffix
strip_suffix(s, suffix) ==
  IF Len(s) >= Len(suffix) /\ SubSeq(s, Len(s) - Len(suffix) + 1, Len(s)) = suffix
  THEN Some(SubSeq(s, 1, Len(s) - Len(suffix)))
  ELSE None

DEFAULT_TOKENS == 4096

MAXIMUM_TOKENS == 16384

\* The arms of the match in get_max_tokens, one set of family names a value.
Family2048 ==
  { <<"g", "r", "a", "n", "i", "t", "e", "-", "c", "o", "d", "e">>,
    <<"p", "h", "i">>,
    <<"t", "i", "n", "y", "l", "l", "a", "m", "a">> }

Family4096 ==
  { <<"l", "l", "a", "m", "a", "2">>,
    <<"s", "t", "a", "b", "l", "e", "l", "m", "2">>,
    <<"v", "i", "c", "u", "n", "a">>,
    <<"y", "i">> }

Family8192 ==
  { <<"a", "y", "a">>,
    <<"c", "o", "d", "e", "g", "e", "m", "m", "a">>,
    <<"g", "e", "m", "m", "a">>,
    <<"g", "e", "m", "m", "a", "2">>,
    <<"l", "l", "a", "m", "a", "3">>,
    <<"s", "t", "a", "r", "c", "o", "d", "e", "r">> }

Family16384 ==
  { <<"c", "o", "d", "e", "l", "l", "a", "m", "a">>,
    <<"s", "t", "a", "r", "c", "o", "d", "e", "r", "2">> }

Family32768 ==
  { <<"c", "o", "d", "e", "s", "t", "r", "a", "l">>,
    <<"d", "o", "l", "p", "h", "i", "n", "-", "m", "i", "x", "t", "r", "a", "l">>,
    <<"l", "l", "a", "v", "a">>,
    <<"m", "a", "g", "i", "s", "t", "r", "a", "l">>,
    <<"m", "i", "s", "t", "r", "a", "l">>,
    <<"m", "i", "x", "s", "t", "r", "a", "l">>,
    <<"q", "w", "e", "n", "2">>,
    <<"q", "w", "e", "n", "2", ".", "5", "-", "c", "o", "d", "e", "r">> }

Family128000 ==
  { <<"c", "o", "g", "i", "t", "o">>,
    <<"c", "o", "m", "m", "a", "n", "d", "-", "r">>,
    <<"d", "e", "e", "p", "s", "e", "e", "k", "-", "c", "o", "d", "e", "r", "-", "v", "2">>,
    <<"d", "e", "e", "p", "s", "e", "e", "k", "-", "r", "1">>,
    <<"d", "e", "e", "p", "s", "e", "e", "k", "-", "v", "3">>,
    <<"d", "e", "v", "s", "t", "r", "a", "l">>,
    <<"g", "e", "m", "m", "a", "3">>,
    <<"g", "p", "t", "-", "o", "s", "s">>,
    <<"g", "r", "a", "n", "i", "t", "e", "3", ".", "3">>,
    <<"l", "l", "a", "m", "a", "3", ".", "1">>,
    <<"l", "l", "a", "m", "a", "3", ".", "2">>,
    <<"l", "l", "a", "m", "a", "3", ".", "3">>,
    <<"m", "i", "s", "t", "r", "a", "l", "-", "n", "e", "m", "o">>,
    <<"p", "h", "i", "3">>,
    <<"p", "h", "i", "3", ".", "5">>,
    <<"p", "h", "i", "4">>,
    <<"q", "w", "e", "n", "3">>,
    <<"y", "i", "-", "c", "o", "d", "e", "r">> }

Family256000 ==
  { <<"q", "w", "e", "n", "3", "-", "c", "o", "d", "e", "r">> }

TableTokens(family) ==
  CASE family \in Family2048 -> 2048
    [] family \in Family4096 -> 4096
    [] family \in Family8192 -> 8192
    [] family \in Family16384 -> 16384
    [] family \in Family32768 -> 32768
    [] family \in Family128000 -> 128000
    [] family \in Family256000 -> 256000
    [] OTHER -> DEFAULT_TOKENS

\* u64::clamp
Clamp(x, lo, hi) == IF x < lo THEN lo ELSE IF x > hi THEN hi ELSE x

get_max_tokens(name) == Clamp(TableTokens(FamilyOf(name)), 1, MAXIMUM_TOKENS)

\* Model::new
ModelNew(name, display_name, max_tokens, supports_tools) ==
  [ name |-> name,
    display_name |-> IF display_name # None THEN display_name
                     ELSE strip_suffix(name, LatestSuffix),
    max_tokens |-> IF max_tokens # None THEN max_tokens[1] ELSE get_max_tokens(name),
    keep_alive |-> Some("indefinite"),
    supports_tools |-> supports_tools,
    supports_vision |-> None,
    supports_thinking |-> None ]

\* Model::display_name
display_name(model) ==
  IF model.display_name # None THEN model.display_name[1] ELSE model.name

\* Model::max_token_count
max_token_count(model) == model.max_tokens

\* The calls of the catalog specification: family names of every arm (with
\* names that are prefixes of one another), a name outside the table and the
\* empty name, each bare, with ":latest" and with another tag.
CatalogFamilies ==
  { <<"p", "h", "i">>,
    <<"y", "i">>,
    <<"y", "i", "-", "c", "o", "d", "e", "r">>,
    <<"l", "l", "a", "m", "a", "3">>,
    <<"l", "l", "a", "m", "a", "3", ".", "2">>,
    <<"c", "o", "d", "e", "l", "l", "a", "m", "a">>,
    <<"q", "w", "e", "n", "3", "-", "c", "o", "d", "e", "r">>,
    <<"z", "e", "d">>,
    <<>> }

CatalogTags == { <<>>, LatestSuffix, <<":", "7", "b">> }

CatalogNames == {f \o t : f \in CatalogFamilies, t \in CatalogTags}

DisplayNames == {None, Some(<<"M", "y">>), Some(<<>>)}

TokenCounts == {None, Some(0), Some(1), Some(MAXIMUM_TOKENS), Some(MAXIMUM_TOKENS + 1)}

CatalogCalls ==
  { [op |-> "Model::new", name |-> n, display_name |-> d, max_tokens |-> m,
     supports_tools |-> t] :
      n \in CatalogNames, d \in DisplayNames, m \in TokenCounts,
      t \in {None, Some(TRUE)} }

\* No stream is open and the tab manager is new.
NoStream(calls) ==
  /\ peer = NoPeer
  /\ unsent = 0
  /\ call \in calls
  /\ result = NoResult
  /\ request = [api |-> "none", api_url |-> <<>>, api_key |-> NoKey]
  /\ lines = <<>>
  /\ wire = <<>>
  /\ path = "none"
  /\ pc = "idle"
  /\ reader = "none"
  /\ buffer = <<>>
  /\ chan = <<>>
  /\ yielded = <<>>
  /\ forwarded = <<>>
  /\ err = "none"
  /\ status = 0
  /\ failure = NoFailure
  /\ TabsInit

\* The state a pure function is called in.
CallInit(calls) == NoStream(calls) /\ ToolIdle

streamVars ==
  <<peer, unsent, status, failure, request, lines, wire, path, pc, reader, buffer, chan, yielded,
    forwarded, err>>

Returned(value) == [returned |-> TRUE, value |-> value]

CallModelNew ==
  /\ call.op = "Model::new"
  /\ result = NoResult
  /\ result' = Returned(ModelNew(call.name, call.display_name, call.max_tokens,
                                 call.supports_tools))
  /\ UNCHANGED <<call, streamVars, tabVars, toolVars>>

CatalogInit == CallInit(CatalogCalls)

CatalogNext == CallModelNew

CatalogSpec == CatalogInit /\ [][CatalogNext]_vars

\* C13: whatever the name and whether or not a max-token count is given, the
\* resolved Model's max_tokens lies in [1, MAXIMUM_TOKENS].
C13_MaxTokensClamped ==
  (call.op = "Model::new" /\ result.returned) =>
    (max_token_count(result.value) >= 1
       /\ max_token_count(result.value) <= MAXIMUM_TOKENS)

\* C14: without an explicit max-token count the window is looked up by the
\* text before the first ':': a family of the table yields the smaller of its
\* table value and the ceiling (llama3.2, tagged or not, the ceiling 16384; phi
\* its own 2048), a family outside the table the default 4096.
Llama32 == <<"l", "l", "a", "m", "a", "3", ".", "2">>

ExpectedWindow ==
  { <<<<"p", "h", "i">>, 2048>>,
    <<<<"y", "i">>, 4096>>,
    <<<<"y", "i", "-", "c", "o", "d", "e", "r">>, 16384>>,
    <<<<"l", "l", "a", "m", "a", "3">>, 8192>>,
    <<Llama32, 16384>>,
    <<<<"c", "o", "d", "e", "l", "l", "a", "m", "a">>, 16384>>,
    <<<<"q", "w", "e", "n", "3", "-", "c", "o", "d", "e", "r">>, 16384>>,
    <<<<"z", "e", "d">>, 4096>>,
    <<<<>>, 4096>> }

C14_FamilyLookup ==
  (call.op = "Model::new" /\ result.returned /\ call.max_tokens = None) =>
    \A e \in ExpectedWindow, t \in CatalogTags :
      call.name = e[1] \o t => max_token_count(result.value) = e[2]

\* llama3.2:7b has been resolved without an explicit count, to the ceiling.
C14_Witness ==
  /\ call.op = "Model::new" /\ result.returned /\ call.max_tokens = None
  /\ call.name = Llama32 \o <<":", "7", "b">>
  /\ max_token_count(result.value) = MAXIMUM_TOKENS

\* C20: without an explicit display name a model's display name is its name
\* with a trailing ":latest" removed, the name itself when it does not end so;
\* an explicit display name is returned as given.
C20_DisplayName ==
  (call.op = "Model::new" /\ result.returned) =>
    /\ call.display_name # None =>
         display_name(result.value) = call.display_name[1]
    /\ call.display_name = None =>
         \A f \in CatalogFamilies, t \in CatalogTags :
           call.name = f \o t =>
             display_name(result.value) = (IF t = LatestSuffix THEN f ELSE f \o t)

\* llama3.2:latest has been resolved without a display name and shows as
\* llama3.2.
C20_Witness ==
  /\ call.op = "Model::new" /\ result.returned /\ call.display_name = None
  /\ call.name = Llama32 \o LatestSuffix
  /\ display_name(result.value) = Llama32

\* ------------------------------------------------------------------ JSON
\* A serde_json::Value: a tagged value; an object is the sequence of its
\* key/value pairs in the order they are written.
JNull == [t |-> "null", v |-> <<>>]

JBool(b) == [t |-> "bool", v |-> b]

JNum(n) == [t |-> "num", v |-> n]

JStr(s) == [t |-> "str", v |-> s]

JArr(xs) == [t |-> "arr", v |-> xs]

JObj(pairs) == [t |-> "obj", v |-> pairs]

Pair(k, val) == [k |-> k, val |-> val]

\* The keys of an object, the empty set for any other value.
ObjKeys(j) == IF j.t = "obj" THEN {j.v[i].k : i \in 1..Len(j.v)} ELSE {}

\* The value an object holds under a key (the key is known to be there).
ObjGet(j, key) == j.v[CHOOSE i \in 1..Len(j.v) : j.v[i].k = key].val

\* ------------------------------------------------------------------ serialization
\* Serialize for Option<T> fields. Without an attribute None is written as
\* null; with #[serde(skip_serializing_if = "Option::is_none")] the field is
\* left out.
NullOr(opt, written) == IF opt = None THEN JNull ELSE written

OptionField(key, opt, written) == <<Pair(key, NullOr(opt, written))>>

StrArr(xs) == JArr([i \in 1..Len(xs) |-> JStr(xs[i])])

\* An images field that is written without its payloads.
EmptiedImages(opt) ==
  IF opt = None THEN <<>> ELSE <<Pair("images", JArr(<<>>))>>

\* images: Option<Vec<String>> with skip_serializing_if
ImagesField(opt) ==
  IF opt = None THEN <<>> ELSE <<Pair("images", StrArr(opt[1]))>>

\* OllamaFunctionCall, OllamaToolCall
SerFunctionCall(f) ==
  JObj(<<Pair("name", JStr(f.name)), Pair("arguments", f.arguments)>>)

SerToolCall(c) ==
  JObj(OptionField("id", c.id, JStr(IF c.id = None THEN "" ELSE c.id[1]))
       \o <<Pair("function", SerFunctionCall(c.function))>>)

\* ChatMessage: #[serde(tag = "role", rename_all = "lowercase")]
SerMessage(m) ==
  CASE m.role = "assistant" ->
         JObj(<<Pair("role", JStr("assistant")), Pair("content", JStr(m.content))>>
              \o OptionField("tool_calls", m.tool_calls,
                   JArr(IF m.tool_calls = None THEN <<>>
                        ELSE [i \in 1..Len(m.tool_calls[1]) |->
                                SerToolCall(m.tool_calls[1][i])]))
              \o ImagesField(m.images)
              \o OptionField("thinking", m.thinking,
                   JStr(IF m.thinking = None THEN "" ELSE m.thinking[1])))
    [] m.role = "user" ->
         JObj(<<Pair("role", JStr("user")), Pair("content", JStr(m.content))>>
              \o ImagesField(m.images))
    [] m.role = "system" ->
         JObj(<<Pair("role", JStr("system")), Pair("content", JStr(m.content))>>)
    [] m.role = "tool" ->
         JObj(<<Pair("role", JStr("tool")), Pair("tool_name", JStr(m.tool_name)),
                Pair("content", JStr(m.content))>>)

\* ChatOptions
SerOptions(o) ==
  JObj(OptionField("num_ctx", o.num_ctx, JNum(IF o.num_ctx = None THEN 0 ELSE o.num_ctx[1]))
       \o OptionField("num_predict", o.num_predict,
            JNum(IF o.num_predict = None THEN 0 ELSE o.num_predict[1]))
       \o OptionField("stop", o.stop, StrArr(IF o.stop = None THEN <<>> ELSE o.stop[1]))
       \o OptionField("temperature", o.temperature,
            JNum(IF o.temperature = None THEN 0 ELSE o.temperature[1]))
       \o OptionField("top_p", o.top_p, JNum(IF o.top_p = None THEN 0 ELSE o.top_p[1])))

\* OllamaTool: #[serde(tag = "type", rename_all = "lowercase")], OllamaFunctionTool
SerTool(tool) ==
  JObj(<<Pair("type", JStr("function")),
         Pair("function",
              JObj(<<Pair("name", JStr(tool.name))>>
                   \o OptionField("description", tool.description,
                        JStr(IF tool.description = None THEN "" ELSE tool.description[1]))
                   \o OptionField("parameters", tool.parameters,
                        IF tool.parameters = None THEN JNull ELSE tool.parameters[1])))>>)

\* ChatRequest
SerRequest(r) ==
  JObj(<<Pair("model", JStr(r.model)),
         Pair("messages", JArr([i \in 1..Len(r.messages) |-> SerMessage(r.messages[i])])),
         Pair("stream", JBool(r.stream)),
         Pair("keep_alive", r.keep_alive)>>
       \o OptionField("options", r.options,
            IF r.options = None THEN JNull ELSE SerOptions(r.options[1]))
       \o <<Pair("tools", JArr([i \in 1..Len(r.tools) |-> SerTool(r.tools[i])]))>>
       \o OptionField("think", r.think, JBool(IF r.think = None THEN FALSE ELSE r.think[1])))

\* The calls of the serialization specification. A message is a record with
\* the fields of every variant; its role says which of them exist.
Msg(role, content, tool_calls, images, thinking, tool_name) ==
  [role |-> role, content |-> content, tool_calls |-> tool_calls, images |-> images,
   thinking |-> thinking, tool_name |-> tool_name]

WeatherArgs == JObj(<<Pair("city", JStr("london"))>>)

ToolCallOf(id) == [id |-> id, function |-> [name |-> "weather", arguments |-> WeatherArgs]]

ImageA == "iVBORw0KGgo="

ImageB == "R0lGODlhAQABAAAAACw="

SerMessages ==
  { Msg("user", "hi", None, None, None, None),
    Msg("user", "look", None, Some(<<ImageA, ImageB>>), None, None),
    Msg("user", "none", None, Some(<<>>), None, None),
    Msg("assistant", "", None, None, None, None),
    Msg("assistant", "", Some(<<ToolCallOf(None)>>), Some(<<ImageB, ImageA, ImageB>>),
        Some("hm"), None),
    Msg("assistant", "ok", Some(<<ToolCallOf(Some("call_1"))>>), None, None, None),
    Msg("system", "be brief", None, None, None, None),
    Msg("tool", "sunny", None, None, None, Some("weather")) }

SerOptionSets ==
  { None,
    Some([num_ctx |-> None, num_predict |-> None, stop |-> None, temperature |-> None,
          top_p |-> None]),
    Some([num_ctx |-> Some(4096), num_predict |-> None, stop |-> Some(<<"END">>),
          temperature |-> None, top_p |-> Some(1)]) }

SerTools ==
  { <<>>,
    <<[name |-> "weather", description |-> None, parameters |-> None]>>,
    <<[name |-> "weather", description |-> Some("forecast"),
       parameters |-> Some(JObj(<<Pair("type", JStr("object"))>>))]>> }

\* Most messages of a request.
MaxMessages == 2

SerRequests ==
  { [model |-> "llava", messages |-> ms, stream |-> TRUE, keep_alive |-> JNum(-1),
     options |-> o, tools |-> ts, think |-> th] :
      ms \in SeqsUpTo(SerMessages, MaxMessages) \ {<<>>},
      o \in SerOptionSets, ts \in SerTools, th \in {None, Some(TRUE)} }

SerCalls == { [op |-> "serde_json::to_string", request |-> r] : r \in SerRequests }

\* serde_json::to_string(&request), up to the value that is written.
CallSerialize ==
  /\ call.op = "serde_json::to_string"
  /\ result = NoResult
  /\ result' = Returned(SerRequest(call.request))
  /\ UNCHANGED <<call, streamVars, tabVars, toolVars>>

SerializeInit == CallInit(SerCalls)

SerializeNext == CallSerialize

SerializeSpec == SerializeInit /\ [][SerializeNext]_vars

\* Whether a value holds null anywhere, and the keys of all its objects.
RECURSIVE HasNull(_)
HasNull(j) ==
  CASE j.t = "null" -> TRUE
    [] j.t = "arr" -> \E i \in 1..Len(j.v) : HasNull(j.v[i])
    [] j.t = "obj" -> \E i \in 1..Len(j.v) : HasNull(j.v[i].val)
    [] OTHER -> FALSE

RECURSIVE AllKeys(_)
AllKeys(j) ==
  CASE j.t = "arr" -> UNION {AllKeys(j.v[i]) : i \in 1..Len(j.v)}
    [] j.t = "obj" -> ObjKeys(j) \cup UNION {AllKeys(j.v[i].val) : i \in 1..Len(j.v)}
    [] OTHER -> {}

Serialized == call.op = "serde_json::to_string" /\ result.returned

WrittenMessage(i) == ObjGet(result.value, "messages").v[i]

\* C15: in the serialized request an absent optional field is left out of
\* its object and never written as null: tool_calls, images and thinking of
\* a message, options and think of the request, every unset option.
C15_AbsentFieldsOmitted ==
  Serialized =>
    LET r == call.request IN
    /\ ~HasNull(result.value)
    /\ r.options = None => "options" \notin ObjKeys(result.value)
    /\ r.think = None => "think" \notin ObjKeys(result.value)
    /\ \A i \in 1..Len(r.messages) :
         /\ r.messages[i].tool_calls = None => "tool_calls" \notin ObjKeys(WrittenMessage(i))
         /\ r.messages[i].images = None => "images" \notin ObjKeys(WrittenMessage(i))
         /\ r.messages[i].thinking = None => "thinking" \notin ObjKeys(WrittenMessage(i))

DecErr == [ok |-> FALSE]

DecOk(value) == [ok |-> TRUE, value |-> value]

\* The value under a key, None when the object has no such key.
Lookup(j, key) == IF key \in ObjKeys(j) THEN Some(ObjGet(j, key)) ELSE None

IsObj(j) == j.t = "obj"

\* A field read that refuses an object with a key that is no field.
KnownOnlyDenying(j, known) == IsObj(j) /\ ObjKeys(j) \subseteq known

\* The object is read by its known fields; the other keys do not matter.
KnownOnly(j, known) == IsObj(j)

HasTyped(j, key, type) == Lookup(j, key) # None /\ Lookup(j, key)[1].t = type

\* An Option field read as if it were required.
HasOptionalRequired(j, key, type) == HasTyped(j, key, type)

\* An Option field: missing, null, or of its type.
HasOptional(j, key, type) ==
  Lookup(j, key) = None \/ Lookup(j, key)[1].t \in {"null", type}

Optional(j, key) ==
  IF Lookup(j, key) = None \/ Lookup(j, key)[1].t = "null" THEN None
  ELSE Some(Lookup(j, key)[1].v)

\* Option<u64>: a number that is not negative.
HasOptionalU64(j, key) ==
  /\ HasOptional(j, key, "num")
  /\ Optional(j, key) # None => Optional(j, key)[1] >= 0

\* OllamaFunctionCall { name: String, arguments: Value }
ValidFunctionCall(j) ==
  /\ KnownOnly(j, {"name", "arguments"})
  /\ HasTyped(j, "name", "str")
  /\ Lookup(j, "arguments") # None

FunctionCallValue(j) ==
  [name |-> ObjGet(j, "name").v, arguments |-> ObjGet(j, "arguments")]

\* OllamaToolCall { id: Option<String>, function: OllamaFunctionCall }
ValidToolCall(j) ==
  /\ KnownOnly(j, {"id", "function"})
  /\ HasOptional(j, "id", "str")
  /\ Lookup(j, "function") # None
  /\ ValidFunctionCall(ObjGet(j, "function"))

ToolCallValue(j) ==
  [id |-> Optional(j, "id"), function |-> FunctionCallValue(ObjGet(j, "function"))]

\* Option<Vec<OllamaToolCall>>
ValidToolCalls(j) ==
  \/ Lookup(j, "tool_calls") = None
  \/ Lookup(j, "tool_calls")[1].t = "null"
  \/ /\ Lookup(j, "tool_calls")[1].t = "arr"
     /\ \A i \in 1..Len(ObjGet(j, "tool_calls").v) :
          ValidToolCall(ObjGet(j, "tool_calls").v[i])

ToolCallsValue(j) ==
  IF Lookup(j, "tool_calls") = None \/ Lookup(j, "tool_calls")[1].t = "null" THEN None
  ELSE Some([i \in 1..Len(ObjGet(j, "tool_calls").v) |->
               ToolCallValue(ObjGet(j, "tool_calls").v[i])])

\* Option<Vec<String>>
ValidImages(j) ==
  \/ Lookup(j, "images") = None
  \/ Lookup(j, "images")[1].t = "null"
  \/ /\ Lookup(j, "images")[1].t = "arr"
     /\ \A i \in 1..Len(ObjGet(j, "images").v) : ObjGet(j, "images").v[i].t = "str"

ImagesValue(j) ==
  IF Lookup(j, "images") = None \/ Lookup(j, "images")[1].t = "null" THEN None
  ELSE Some([i \in 1..Len(ObjGet(j, "images").v) |-> ObjGet(j, "images").v[i].v])

\* ChatMessage, tagged by "role".
ValidMessage(j) ==
  /\ IsObj(j)
  /\ HasTyped(j, "role", "str")
  /\ LET role == ObjGet(j, "role").v IN
     CASE role = "assistant" ->
            /\ KnownOnly(j, {"role", "content", "tool_calls", "images", "thinking"})
            /\ HasTyped(j, "content", "str")
            /\ ValidToolCalls(j)
            /\ ValidImages(j)
            /\ HasOptional(j, "thinking", "str")
       [] role = "user" ->
            /\ KnownOnly(j, {"role", "content", "images"})
            /\ HasTyped(j, "content", "str")
            /\ ValidImages(j)
       [] role = "system" ->
            /\ KnownOnly(j, {"role", "content"})
            /\ HasTyped(j, "content", "str")
       [] role = "tool" ->
            /\ KnownOnly(j, {"role", "tool_name", "content"})
            /\ HasTyped(j, "tool_name", "str")
            /\ HasTyped(j, "content", "str")
       [] OTHER -> FALSE

MessageValue(j) ==
  LET role == ObjGet(j, "role").v IN
  CASE role = "assistant" ->
         Msg(role, ObjGet(j, "content").v, ToolCallsValue(j), ImagesValue(j),
             Optional(j, "thinking"), None)
    [] role = "user" -> Msg(role, ObjGet(j, "content").v, None, ImagesValue(j), None, None)
    [] role = "system" -> Msg(role, ObjGet(j, "content").v, None, None, None, None)
    [] role = "tool" ->
         Msg(role, ObjGet(j, "content").v, None, None, None, Some(ObjGet(j, "tool_name").v))

\* ChatResponseDelta
DeltaFields ==
  {"model", "created_at", "message", "done_reason", "done", "prompt_eval_count",
   "eval_count"}

ValidDelta(j) ==
  /\ KnownOnly(j, DeltaFields)
  /\ HasTyped(j, "model", "str")
  /\ HasTyped(j, "created_at", "str")
  /\ Lookup(j, "message") # None
  /\ ValidMessage(ObjGet(j, "message"))
  /\ HasOptional(j, "done_reason", "str")
  /\ HasTyped(j, "done", "bool")
  /\ HasOptionalU64(j, "prompt_eval_count")
  /\ HasOptionalU64(j, "eval_count")

DeltaValue(j) ==
  [model |-> ObjGet(j, "model").v,
   created_at |-> ObjGet(j, "created_at").v,
   message |-> MessageValue(ObjGet(j, "message")),
   done_reason |-> Optional(j, "done_reason"),
   done |-> ObjGet(j, "done").v,
   prompt_eval_count |-> Optional(j, "prompt_eval_count"),
   eval_count |-> Optional(j, "eval_count")]

\* serde_json::from_value::<ChatResponseDelta>
DecodeDelta(j) == IF ValidDelta(j) THEN DecOk(DeltaValue(j)) ELSE DecErr

\* ModelShow's Deserialize: visit_map takes the keys in document order.
\* "capabilities" is read as Vec<String>, "model_info" as a Value from which,
\* if it is an object, the architecture and the context length are taken;
\* every other key is skipped with IgnoredAny.
IsStrArr(j) == j.t = "arr" /\ \A i \in 1..Len(j.v) : j.v[i].t = "str"

\* obj.get(key).and_then(|v| v.as_str())
GetStr(obj, key) ==
  IF HasTyped(obj, key, "str") THEN Some(ObjGet(obj, key).v) ELSE None

\* obj.get(key).and_then(|v| v.as_u64())
GetU64(obj, key) ==
  IF HasTyped(obj, key, "num") /\ ObjGet(obj, key).v >= 0
  THEN Some(ObjGet(obj, key).v) ELSE None

\* A visitor that knows no capability key.
VisitKeyIgnoringCapabilities(acc, key, val) ==
  IF key = "model_info" /\ val.t = "obj"
  THEN [acc EXCEPT !.architecture = GetStr(val, "general.architecture")]
  ELSE acc

\* One turn of the while-let loop of visit_map.
VisitKey(acc, key, val) ==
  CASE key = "capabilities" ->
         IF IsStrArr(val)
         THEN [acc EXCEPT !.capabilities = [i \in 1..Len(val.v) |-> val.v[i].v]]
         ELSE [acc EXCEPT !.ok = FALSE]
    [] key = "model_info" ->
         IF val.t = "obj"
         THEN LET arch == GetStr(val, "general.architecture") IN
              [acc EXCEPT
                 !.architecture = arch,
                 !.context_length =
                    IF arch # None THEN GetU64(val, arch[1] \o ".context_length")
                    ELSE acc.context_length]
         ELSE acc
    [] OTHER -> acc

RECURSIVE VisitMap(_, _)
VisitMap(pairs, acc) ==
  IF pairs = <<>> \/ ~acc.ok THEN acc
  ELSE VisitMap(Tail(pairs), VisitKey(acc, Head(pairs).k, Head(pairs).val))

\* serde_json::from_value::<ModelShow>
DecodeModelShow(j) ==
  IF ~IsObj(j) THEN DecErr
  ELSE LET acc == VisitMap(j.v, [ok |-> TRUE, capabilities |-> <<>>,
                                  architecture |-> None, context_length |-> None])
       IN IF acc.ok
          THEN DecOk([capabilities |-> acc.capabilities,
                      context_length |-> acc.context_length,
                      architecture |-> acc.architecture])
          ELSE DecErr

\* self.capabilities.iter().any(|v| v == name)
Supports(show, name) == \E i \in 1..Len(show.capabilities) : show.capabilities[i] = name

supports_tools(show) == Supports(show, "tools")

supports_vision(show) == Supports(show, "vision")

supports_thinking(show) == Supports(show, "thinking")

\* The documents of the decoding specification. Each call carries a document
\* and its base: the same document without the keys that are no fields.
AtFront(extra, pairs) == extra \o pairs

AtBack(extra, pairs) == pairs \o extra

\* Keys that are no field of the object they are put into.
TopExtras ==
  { <<>>,
    <<Pair("total_duration", JNum(51915)), Pair("eval_duration", JNum(47999))>>,
    <<Pair("context", JObj(<<Pair("done", JBool(FALSE)), Pair("ids", JArr(<<JNum(1)>>))>>))>> }

MessageExtras == { <<>>, <<Pair("name", JNull), Pair("refusal", JStr("no"))>> }

CallExtras == { <<>>, <<Pair("index", JNum(0))>> }

\* A tool call as the server writes it, with or without an id.
ToolCallDoc(id, x) ==
  JObj(x \o (IF id = None THEN <<>> ELSE <<Pair("id", JStr(id[1]))>>)
       \o <<Pair("function",
                 JObj(<<Pair("name", JStr("weather"))>> \o x
                      \o <<Pair("arguments", WeatherArgs)>>))>>)

\* The message objects: every role, with and without tool calls, images and
\* thinking, and two that do not decode (no content, an unknown role).
MessageDocs(x) ==
  << <<Pair("role", JStr("assistant")), Pair("content", JStr("The"))>>,
    <<Pair("role", JStr("assistant")), Pair("content", JStr("The")), Pair("images", JNull),
      Pair("thinking", JStr("hm"))>>,
    <<Pair("role", JStr("assistant")), Pair("content", JStr("")),
      Pair("tool_calls", JArr(<<ToolCallDoc(None, x)>>))>>,
    <<Pair("content", JStr("")),
      Pair("tool_calls", JArr(<<ToolCallDoc(Some("call_llama3.2:3b_145155"), x),
                                ToolCallDoc(None, x)>>)),
      Pair("role", JStr("assistant"))>>,
    <<Pair("role", JStr("user")), Pair("content", JStr("hi")),
      Pair("images", JArr(<<JStr(ImageA)>>))>>,
    <<Pair("role", JStr("system")), Pair("content", JStr("be brief"))>>,
    <<Pair("role", JStr("tool")), Pair("tool_name", JStr("weather")),
      Pair("content", JStr("sunny"))>>,
    <<Pair("role", JStr("assistant"))>>,
    <<Pair("role", JStr("robot")), Pair("content", JStr("x"))>> >>

DeltaDoc(message, done, top) ==
  JObj(AtFront(top, <<Pair("model", JStr("llama3.2")),
                      Pair("created_at", JStr("2023-08-04T19:22:45.499127Z")),
                      Pair("message", JObj(message)),
                      Pair("done", JBool(done))>>
                    \o (IF done THEN <<Pair("done_reason", JStr("stop")),
                                       Pair("eval_count", JNum(298))>>
                        ELSE <<>>)))

DeltaCalls ==
  { [op |-> "from_value::<ChatResponseDelta>",
     doc |-> DeltaDoc(IF front THEN AtFront(mx, MessageDocs(cx)[k])
                      ELSE AtBack(mx, MessageDocs(cx)[k]), done, top),
     base |-> DeltaDoc(MessageDocs(<<>>)[k], done, <<>>)] :
      k \in 1..Len(MessageDocs(<<>>)), front \in BOOLEAN, mx \in MessageExtras, cx \in CallExtras,
      done \in BOOLEAN, top \in TopExtras }

\* The capability documents: the capabilities key absent, empty, with and
\* without each capability, and not an array of strings; model_info absent,
\* not an object, without architecture, with an architecture that is no
\* string, with and without the architecture's context length, with a
\* context length that is no u64.
CapabilityValues ==
  { None,
    Some(JArr(<<>>)),
    Some(JArr(<<JStr("completion"), JStr("tools")>>)),
    Some(JArr(<<JStr("vision"), JStr("thinking"), JStr("completion")>>)),
    Some(JArr(<<JStr("Tools"), JStr("tools2")>>)),
    Some(JNum(3)) }

ModelInfoValues ==
  { None,
    Some(JNull),
    Some(JObj(<<>>)),
    Some(JObj(<<Pair("llama.context_length", JNum(131072))>>)),
    Some(JObj(<<Pair("general.architecture", JNum(1)),
                Pair("llama.context_length", JNum(131072))>>)),
    Some(JObj(<<Pair("general.architecture", JStr("llama"))>>)),
    Some(JObj(<<Pair("general.architecture", JStr("llama")),
                Pair("general.basename", JStr("Llama-3.2")),
                Pair("llama.context_length", JNum(131072))>>)),
    Some(JObj(<<Pair("qwen2.context_length", JNum(32768)),
                Pair("context_length", JNum(1)),
                Pair("general.architecture", JStr("llama"))>>)),
    Some(JObj(<<Pair("llama.context_length", JStr("131072")),
                Pair("general.architecture", JStr("llama"))>>)),
    Some(JObj(<<Pair("general.architecture", JStr("llama")),
                Pair("llama.context_length", JNum(-1))>>)) }

ShowExtras ==
  { <<>>,
    <<Pair("license", JStr("LLAMA 3.2")),
      Pair("details", JObj(<<Pair("family", JStr("llama")),
                             Pair("capabilities", JArr(<<JStr("vision")>>))>>)),
      Pair("tensors", JArr(<<JObj(<<Pair("name", JStr("rope_freqs.weight"))>>)>>))>> }

KeyIfSome(key, opt) == IF opt = None THEN <<>> ELSE <<Pair(key, opt[1])>>

ShowDoc(caps, info, capsFirst, top) ==
  JObj(AtFront(top, IF capsFirst
                    THEN KeyIfSome("capabilities", caps) \o KeyIfSome("model_info", info)
                    ELSE KeyIfSome("model_info", info) \o KeyIfSome("capabilities", caps)))

ShowCalls ==
  { [op |-> "from_value::<ModelShow>",
     doc |-> ShowDoc(caps, info, capsFirst, top),
     base |-> ShowDoc(caps, info, capsFirst, <<>>)] :
      caps \in CapabilityValues, info \in ModelInfoValues, capsFirst \in BOOLEAN,
      top \in ShowExtras }

\* serde_json::from_value::<ChatResponseDelta>(response)
CallDecodeDelta ==
  /\ call.op = "from_value::<ChatResponseDelta>"
  /\ result = NoResult
  /\ result' = Returned(DecodeDelta(call.doc))
  /\ UNCHANGED <<call, streamVars, tabVars, toolVars>>

\* serde_json::from_value::<ModelShow>(response)
CallDecodeModelShow ==
  /\ call.op = "from_value::<ModelShow>"
  /\ result = NoResult
  /\ result' = Returned(DecodeModelShow(call.doc))
  /\ UNCHANGED <<call, streamVars, tabVars, toolVars>>

DecodeInit == CallInit(DeltaCalls \cup ShowCalls)

DecodeNext == CallDecodeDelta \/ CallDecodeModelShow

DecodeSpec == DecodeInit /\ [][DecodeNext]_vars

DecodedDelta == call.op = "from_value::<ChatResponseDelta>" /\ result.returned

DecodedShow == call.op = "from_value::<ModelShow>" /\ result.returned

\* C17: a response record or a capability document that carries keys which
\* are no fields decodes to what the same document without those keys
\* decodes to, and decodes whenever that one does.
C17_UnknownFieldsIgnored ==
  /\ DecodedDelta => result.value = DecodeDelta(call.base)
  /\ DecodedShow => result.value = DecodeModelShow(call.base)

\* A record with unknown keys at the top, in the message, in a tool call and
\* in its function has decoded to a delta with its tool call.
C17_Witness ==
  /\ DecodedDelta /\ result.value.ok
  /\ call.doc # call.base
  /\ "total_duration" \in ObjKeys(call.doc)
  /\ "refusal" \in ObjKeys(ObjGet(call.doc, "message"))
  /\ "index" \in AllKeys(call.doc)
  /\ result.value.value.message.tool_calls # None

\* C18: a tool call without an id decodes, with id absent and with the
\* function's name and arguments as written; a tool call with an id decodes
\* with that id; a record is never dropped for a tool call's missing id.
WrittenToolCalls ==
  LET message == ObjGet(call.base, "message")
  IN IF HasTyped(message, "tool_calls", "arr") THEN ObjGet(message, "tool_calls").v
     ELSE <<>>

C18_ToolCallIdOptional ==
  (DecodedDelta /\ WrittenToolCalls # <<>>) =>
    /\ result.value.ok
    /\ result.value.value.message.tool_calls # None
    /\ LET decoded == result.value.value.message.tool_calls[1] IN
       /\ Len(decoded) = Len(WrittenToolCalls)
       /\ \A i \in 1..Len(decoded) :
            /\ decoded[i].function.name = ObjGet(ObjGet(WrittenToolCalls[i], "function"), "name").v
            /\ decoded[i].function.arguments
                 = ObjGet(ObjGet(WrittenToolCalls[i], "function"), "arguments")
            /\ IF "id" \in ObjKeys(WrittenToolCalls[i])
               THEN decoded[i].id = Some(ObjGet(WrittenToolCalls[i], "id").v)
               ELSE decoded[i].id = None

\* A record whose only tool call has no id has decoded to a delta with that
\* tool call.
C18_Witness ==
  /\ DecodedDelta /\ result.value.ok
  /\ Len(WrittenToolCalls) = 1
  /\ "id" \notin ObjKeys(WrittenToolCalls[1])
  /\ result.value.value.message.tool_calls
       = Some(<<[id |-> None, function |-> [name |-> "weather", arguments |-> WeatherArgs]]>>)

\* C19: a capability document decodes to a ModelShow whose supports_tools,
\* supports_vision and supports_thinking tell whether the capabilities array
\* holds "tools", "vision" and "thinking"; whose architecture is the string
\* under model_info's key general.architecture; and whose context_length is
\* the number under model_info's key <architecture>.context_length, absent
\* whenever the architecture or that key is absent.
WrittenCapabilities ==
  IF HasTyped(call.doc, "capabilities", "arr")
  THEN {ObjGet(call.doc, "capabilities").v[i] : i \in 1..Len(ObjGet(call.doc, "capabilities").v)}
  ELSE {}

\* The document has no capabilities key or an array of strings under it.
CapabilitiesReadable ==
  "capabilities" \notin ObjKeys(call.doc) \/ IsStrArr(ObjGet(call.doc, "capabilities"))

WrittenInfo ==
  IF HasTyped(call.doc, "model_info", "obj") THEN ObjGet(call.doc, "model_info")
  ELSE JObj(<<>>)

C19_ModelShowFields ==
  (DecodedShow /\ CapabilitiesReadable) =>
    /\ result.value.ok
    /\ LET show == result.value.value IN
       /\ supports_tools(show) <=> JStr("tools") \in WrittenCapabilities
       /\ supports_vision(show) <=> JStr("vision") \in WrittenCapabilities
       /\ supports_thinking(show) <=> JStr("thinking") \in WrittenCapabilities
       /\ IF HasTyped(WrittenInfo, "general.architecture", "str")
          THEN /\ show.architecture = Some(ObjGet(WrittenInfo, "general.architecture").v)
               /\ LET key == show.architecture[1] \o ".context_length" IN
                  /\ key \notin ObjKeys(WrittenInfo) => show.context_length = None
                  /\ (HasTyped(WrittenInfo, key, "num") /\ ObjGet(WrittenInfo, key).v >= 0)
                       => show.context_length = Some(ObjGet(WrittenInfo, key).v)
          ELSE show.architecture = None /\ show.context_length = None

\* The document of a llama model with tools has decoded: tools supported,
\* vision not, architecture llama, context length 131072.
C19_Witness ==
  /\ DecodedShow /\ result.value.ok
  /\ supports_tools(result.value.value) /\ ~supports_vision(result.value.value)
  /\ result.value.value.architecture = Some("llama")
  /\ result.value.value.context_length = Some(131072)
  /\ "license" \in ObjKeys(call.doc)

\* ------------------------------------------------------------------ agent_ui::tabs
\* The most tabs the panel is given.
MaxTabs == 3

\* Uuid values: the ids tabs are created with, and one more, so that an id no
\* tab has always exists.
Uuids == 1..(MaxTabs + 1)

NewUuids == 1..MaxTabs

\* The titles tabs are created with, and the titles they are renamed to.
Titles == {"Thread 1"}

NewTitles == {"New Title"}

TabTypes == {"Thread"}

\* AgentTab::new: a fresh id, not active, not modified, no session.
AgentTabNew(id, title, tab_type) ==
  [id |-> id, title |-> title, tab_type |-> tab_type, is_active |-> FALSE,
   session_id |-> None, is_modified |-> FALSE]

\* What a method of the manager leaves behind: the manager and the value returned.
Outcome(self, value) == [self |-> self, value |-> value]

\* for tab in &mut self.tabs { tab.is_active = false; }
Deactivated(ts) == [i \in 1..Len(ts) |-> [ts[i] EXCEPT !.is_active = FALSE]]

\* self.tabs[index].is_active = true (index counted from 0)
Activated(ts, index) == [ts EXCEPT ![index + 1].is_active = TRUE]

\* add_tab without the loop that marks the other tabs inactive.
add_tab_keeping_active(self, tab) ==
  LET pushed == Append(self.tabs, tab)
      index == Len(pushed) - 1
  IN Outcome([tabs |-> Activated(pushed, index), active_tab_index |-> index],
             Some(Activated(pushed, index)[index + 1]))

add_tab(self, tab) ==
  LET pushed == Append(Deactivated(self.tabs), tab)
      index == Len(pushed) - 1
  IN Outcome([tabs |-> Activated(pushed, index), active_tab_index |-> index],
             Some(Activated(pushed, index)[index + 1]))

\* select_tab that marks the tab active before it checks the index.
select_tab_unchecked(self, index) ==
  LET at == IF index >= Len(self.tabs) THEN Len(self.tabs) - 1 ELSE index
      ts == Activated(Deactivated(self.tabs), at)
  IN IF self.tabs = <<>> THEN Outcome(self, None)
     ELSE Outcome([tabs |-> ts, active_tab_index |-> at],
                  IF index >= Len(self.tabs) THEN None ELSE Some(ts[at + 1]))

select_tab(self, index) ==
  IF index >= Len(self.tabs) THEN Outcome(self, None)
  ELSE LET ts == Activated(Deactivated(self.tabs), index)
       IN Outcome([tabs |-> ts, active_tab_index |-> index], Some(ts[index + 1]))

\* self.tabs.iter().position(|tab| tab.id == id): the first index, from 0.
position(ts, id) ==
  IF \E i \in 1..Len(ts) : ts[i].id = id
  THEN Some((CHOOSE i \in 1..Len(ts) :
               ts[i].id = id /\ \A j \in 1..(i - 1) : ts[j].id # id) - 1)
  ELSE None

select_tab_by_id(self, id) ==
  IF position(self.tabs, id) = None THEN Outcome(self, None)
  ELSE select_tab(self, position(self.tabs, id)[1])

\* remove that always takes out the first element.
RemoveFirst(ts, index) == SubSeq(ts, 2, Len(ts))

\* Vec::remove(index), index counted from 0.
Remove(ts, index) == SubSeq(ts, 1, index) \o SubSeq(ts, index + 2, Len(ts))

\* saturating_sub that subtracts nothing.
saturating_sub_kept(a, b) == a

\* usize::saturating_sub(1)
saturating_sub(a, b) == IF a < b THEN 0 ELSE a - b

\* close_tab without the check that protects the last tab.
close_tab_unprotected(self, index) ==
  IF index >= Len(self.tabs) THEN Outcome(self, None)
  ELSE LET removed == self.tabs[index + 1]
           ts == Remove(self.tabs, index)
           active == IF index <= self.active_tab_index
                     THEN saturating_sub(self.active_tab_index, 1)
                     ELSE self.active_tab_index
       IN IF ts # <<>> /\ active < Len(ts)
          THEN Outcome([tabs |-> Activated(ts, active), active_tab_index |-> active],
                       Some(removed))
          ELSE IF ts # <<>>
          THEN Outcome([tabs |-> Activated(ts, 0), active_tab_index |-> 0], Some(removed))
          ELSE Outcome([tabs |-> ts, active_tab_index |-> active], Some(removed))

\* close_tab that lowers the active index only when the active tab itself is closed.
close_tab_not_shifting(self, index) ==
  IF index >= Len(self.tabs) \/ Len(self.tabs) = 1 THEN Outcome(self, None)
  ELSE LET removed == self.tabs[index + 1]
           ts == Remove(self.tabs, index)
           active == IF index = self.active_tab_index
                     THEN saturating_sub(self.active_tab_index, 1)
                     ELSE self.active_tab_index
       IN IF ts # <<>> /\ active < Len(ts)
          THEN Outcome([tabs |-> Activated(ts, active), active_tab_index |-> active],
                       Some(removed))
          ELSE IF ts # <<>>
          THEN Outcome([tabs |-> Activated(ts, 0), active_tab_index |-> 0], Some(removed))
          ELSE Outcome([tabs |-> ts, active_tab_index |-> active], Some(removed))

close_tab(self, index) ==
  IF index >= Len(self.tabs) THEN Outcome(self, None)
  ELSE IF Len(self.tabs) = 1 THEN Outcome(self, None)
  ELSE LET removed == self.tabs[index + 1]
           ts == Remove(self.tabs, index)
           active == IF index <= self.active_tab_index
                     THEN saturating_sub(self.active_tab_index, 1)
                     ELSE self.active_tab_index
       IN IF ts # <<>> /\ active < Len(ts)
          THEN Outcome([tabs |-> Activated(ts, active), active_tab_index |-> active],
                       Some(removed))
          ELSE IF ts # <<>>
          THEN Outcome([tabs |-> Activated(ts, 0), active_tab_index |-> 0], Some(removed))
          ELSE Outcome([tabs |-> ts, active_tab_index |-> active], Some(removed))

\* close_tab_by_id that reports an unknown id by closing the first tab.
close_tab_by_id_defaulting(self, id) ==
  IF position(self.tabs, id) = None THEN close_tab(self, 0)
  ELSE close_tab(self, position(self.tabs, id)[1])

close_tab_by_id(self, id) ==
  IF position(self.tabs, id) = None THEN Outcome(self, None)
  ELSE close_tab(self, position(self.tabs, id)[1])

\* self.tabs.get(self.active_tab_index)
active_tab(self) ==
  IF self.active_tab_index < Len(self.tabs)
  THEN Some(self.tabs[self.active_tab_index + 1])
  ELSE None

\* next_tab that stops at the last tab.
next_tab_no_wrap(self) ==
  IF self.tabs = <<>> THEN Outcome(self, None)
  ELSE select_tab(self, IF self.active_tab_index + 1 < Len(self.tabs)
                        THEN self.active_tab_index + 1
                        ELSE self.active_tab_index)

next_tab(self) ==
  IF self.tabs = <<>> THEN Outcome(self, None)
  ELSE select_tab(self, (self.active_tab_index + 1) % Len(self.tabs))

previous_tab(self) ==
  IF self.tabs = <<>> THEN Outcome(self, None)
  ELSE select_tab(self, IF self.active_tab_index = 0
                        THEN Len(self.tabs) - 1
                        ELSE self.active_tab_index - 1)

\* update_tab_title that also marks the tab modified.
update_tab_title_marking(self, id, title) ==
  IF position(self.tabs, id) = None THEN Outcome(self, FALSE)
  ELSE Outcome([self EXCEPT !.tabs[position(self.tabs, id)[1] + 1].title = title,
                            !.tabs[position(self.tabs, id)[1] + 1].is_modified = TRUE],
               TRUE)

\* self.tabs.iter_mut().find(|tab| tab.id == id): the first tab with the id.
update_tab_title(self, id, title) ==
  IF position(self.tabs, id) = None THEN Outcome(self, FALSE)
  ELSE Outcome([self EXCEPT !.tabs[position(self.tabs, id)[1] + 1].title = title], TRUE)

update_tab_modified(self, id, modified) ==
  IF position(self.tabs, id) = None THEN Outcome(self, FALSE)
  ELSE Outcome([self EXCEPT !.tabs[position(self.tabs, id)[1] + 1].is_modified = modified],
               TRUE)

\* clear that keeps the active index.
clear_keeping_index(self) ==
  Outcome([tabs |-> <<>>, active_tab_index |-> self.active_tab_index], None)

clear(self) == Outcome([tabs |-> <<>>, active_tab_index |-> 0], None)

\* The manager as the methods see it.
Manager == [tabs |-> tabs, active_tab_index |-> active_tab_index]

\* What a call leaves in `returned`: the method, its arguments and its value.
Return(op, args, value) == [op |-> op, args |-> args, value |-> value]

\* The ids the manager's tabs carry.
IdsInUse == {tabs[i].id : i \in 1..Len(tabs)}

\* Uuid::new_v4: an id no tab of the manager has. The methods only compare ids
\* for equality, so managers that differ in the values of the ids alone behave
\* alike: the id after the greatest one in use stands for all fresh ids.
FreshUuid == IF IdsInUse = {} THEN 1
             ELSE 1 + CHOOSE id \in IdsInUse : \A other \in IdsInUse : other <= id

\* The indices a caller passes: every valid one and one past the longest list.
Indices == 0..MaxTabs

\* tabs.add_tab(AgentTab::new(title, tab_type)): Uuid::new_v4 gives an id no tab has.
AddTab ==
  /\ Len(tabs) < MaxTabs
  /\ \E id \in {FreshUuid} \cap NewUuids, title \in Titles, tab_type \in TabTypes :
       LET out == add_tab(Manager, AgentTabNew(id, title, tab_type)) IN
       /\ tabs' = out.self.tabs
       /\ active_tab_index' = out.self.active_tab_index
       /\ returned' = Return("add_tab", <<id, title, tab_type>>, out.value)
       /\ UNCHANGED <<call, result, streamVars, toolVars>>

SelectTab ==
  \E index \in Indices :
    LET out == select_tab(Manager, index) IN
    /\ tabs' = out.self.tabs
    /\ active_tab_index' = out.self.active_tab_index
    /\ returned' = Return("select_tab", <<index>>, out.value)
    /\ UNCHANGED <<call, result, streamVars, toolVars>>

SelectTabById ==
  \E id \in Uuids :
    LET out == select_tab_by_id(Manager, id) IN
    /\ tabs' = out.self.tabs
    /\ active_tab_index' = out.self.active_tab_index
    /\ returned' = Return("select_tab_by_id", <<id>>, out.value)
    /\ UNCHANGED <<call, result, streamVars, toolVars>>

CloseTab ==
  \E index \in Indices :
    LET out == close_tab(Manager, index) IN
    /\ tabs' = out.self.tabs
    /\ active_tab_index' = out.self.active_tab_index
    /\ returned' = Return("close_tab", <<index>>, out.value)
    /\ UNCHANGED <<call, result, streamVars, toolVars>>

CloseTabById ==
  \E id \in Uuids :
    LET out == close_tab_by_id(Manager, id) IN
    /\ tabs' = out.self.tabs
    /\ active_tab_index' = out.self.active_tab_index
    /\ returned' = Return("close_tab_by_id", <<id>>, out.value)
    /\ UNCHANGED <<call, result, streamVars, toolVars>>

NextTab ==
  LET out == next_tab(Manager) IN
  /\ tabs' = out.self.tabs
  /\ active_tab_index' = out.self.active_tab_index
  /\ returned' = Return("next_tab", <<>>, out.value)
  /\ UNCHANGED <<call, result, streamVars, toolVars>>

PreviousTab ==
  LET out == previous_tab(Manager) IN
  /\ tabs' = out.self.tabs
  /\ active_tab_index' = out.self.active_tab_index
  /\ returned' = Return("previous_tab", <<>>, out.value)
  /\ UNCHANGED <<call, result, streamVars, toolVars>>

UpdateTabTitle ==
  \E id \in Uuids, title \in NewTitles :
    LET out == update_tab_title(Manager, id, title) IN
    /\ tabs' = out.self.tabs
    /\ active_tab_index' = out.self.active_tab_index
    /\ returned' = Return("update_tab_title", <<id, title>>, out.value)
    /\ UNCHANGED <<call, result, streamVars, toolVars>>

UpdateTabModified ==
  \E id \in Uuids, modified \in BOOLEAN :
    LET out == update_tab_modified(Manager, id, modified) IN
    /\ tabs' = out.self.tabs
    /\ active_tab_index' = out.self.active_tab_index
    /\ returned' = Return("update_tab_modified", <<id, modified>>, out.value)
    /\ UNCHANGED <<call, result, streamVars, toolVars>>

Clear ==
  LET out == clear(Manager) IN
  /\ tabs' = out.self.tabs
  /\ active_tab_index' = out.self.active_tab_index
  /\ returned' = Return("clear", <<>>, out.value)
  /\ UNCHANGED <<call, result, streamVars, toolVars>>

TabsSpecInit == CallInit({NoCall})

TabsNext ==
  \/ AddTab \/ SelectTab \/ SelectTabById \/ CloseTab \/ CloseTabById
  \/ NextTab \/ PreviousTab \/ UpdateTabTitle \/ UpdateTabModified \/ Clear

TabsSpec == TabsSpecInit /\ [][TabsNext]_vars

\* ------------------------------------------------------------------ C21
\* The tabs that have is_active set, by index from 0.
ActiveFlags(ts) == {i \in 0..(Len(ts) - 1) : ts[i + 1].is_active}

\* C21: whenever the manager holds at least one tab, exactly one tab has
\* is_active set, the active index is less than the number of tabs, and the tab
\* at the active index is the one with is_active set.
C21_OneActiveTab ==
  tabs # <<>> =>
    /\ Cardinality(ActiveFlags(tabs)) = 1
    /\ active_tab_index < Len(tabs)
    /\ ActiveFlags(tabs) = {active_tab_index}

\* close_tab has just removed the active tab of three: two tabs are left and
\* the first of them is the active one.
C21_Witness ==
  /\ returned.op = "close_tab"
  /\ returned.value # None
  /\ returned.value[1].is_active
  /\ Len(tabs) = 2
  /\ active_tab_index = 0

\* ------------------------------------------------------------------ C22
\* The step is a call of one of the named methods.
Calls(ops) == returned'.op \in ops

\* The step leaves the tab list and the active index as they were.
ManagerUnchanged == tabs' = tabs /\ active_tab_index' = active_tab_index

\* C22: close_tab returns None and leaves the tab list and the active index
\* unchanged when exactly one tab exists or the index is out of range, and no
\* close_tab or close_tab_by_id call takes the manager from one tab to none.
C22_LastTabProtected ==
  [][ /\ Calls({"close_tab"}) /\ (Len(tabs) = 1 \/ returned'.args[1] >= Len(tabs))
        => returned'.value = None /\ ManagerUnchanged
      /\ Calls({"close_tab", "close_tab_by_id"}) /\ Len(tabs) >= 1
        => Len(tabs') >= 1
      /\ Calls({"close_tab_by_id"}) /\ Len(tabs) = 1
        => returned'.value = None /\ ManagerUnchanged ]_vars

\* close_tab(0) has just been refused on a manager with a single tab.
C22_Witness ==
  /\ returned.op = "close_tab"
  /\ returned.args = <<0>>
  /\ returned.value = None
  /\ Len(tabs) = 1

C24_CloseOtherKeepsActive ==
  [][ /\ Calls({"close_tab"})
      /\ returned'.value # None
      /\ returned'.args[1] # active_tab_index
      => /\ active_tab(Manager) # None
         /\ active_tab(Manager)' = active_tab(Manager) ]_vars

\* close_tab has just closed a tab in front of the active one: the closed tab
\* was not the active one and the active tab has moved down to its index.
C24_Witness ==
  /\ returned.op = "close_tab"
  /\ returned.value # None
  /\ ~returned.value[1].is_active
  /\ returned.args[1] <= active_tab_index
  /\ Len(tabs) = 2

\* ------------------------------------------------------------------ C25
\* next_tab called k times in a row.
RECURSIVE NextTimes(_, _)
NextTimes(self, k) == IF k = 0 THEN self ELSE NextTimes(next_tab(self).self, k - 1)

\* What one navigation step does to the active index.
NavigationStep ==
  /\ Calls({"next_tab"}) /\ tabs # <<>>
       => /\ active_tab_index' = (active_tab_index + 1) % Len(tabs)
          /\ ActiveFlags(tabs') = {active_tab_index'}
          /\ returned'.value = active_tab(Manager)'
  /\ Calls({"previous_tab"}) /\ tabs # <<>>
       => /\ active_tab_index' = (active_tab_index + Len(tabs) - 1) % Len(tabs)
          /\ ActiveFlags(tabs') = {active_tab_index'}
          /\ returned'.value = active_tab(Manager)'

\* What navigation there and back, and once around, does to the manager.
NavigationRoundTrips ==
  tabs # <<>>
    => /\ previous_tab(next_tab(Manager).self).self = Manager
       /\ NextTimes(Manager, Len(tabs)) = Manager

\* C25: with n >= 1 tabs and active index a, next_tab makes (a+1) mod n active
\* and previous_tab (a-1) mod n; previous_tab after next_tab restores the
\* active tab, and n next_tab calls in a row return to the starting tab.
C25_NavigationWraps == [][NavigationStep]_vars /\ []NavigationRoundTrips

\* next_tab has just wrapped from the last of three tabs to the first.
C25_Witness ==
  /\ returned.op = "next_tab"
  /\ Len(tabs) = 3
  /\ active_tab_index = 0
  /\ returned.value = Some(tabs[1])

\* ------------------------------------------------------------------ C26
\* C26: add_tab appends the new tab at the end, keeps the existing tabs and
\* their order, increases the count by one, and makes the new tab the active
\* one with every other tab inactive.
C26_AddTabAppends ==
  [][ Calls({"add_tab"})
      => /\ Len(tabs') = Len(tabs) + 1
         /\ \A i \in 1..Len(tabs) : tabs'[i] = [tabs[i] EXCEPT !.is_active = FALSE]
         /\ tabs'[Len(tabs')].id = returned'.args[1]
         /\ tabs'[Len(tabs')].title = returned'.args[2]
         /\ tabs'[Len(tabs')].is_active
         /\ active_tab_index' = Len(tabs)
         /\ ActiveFlags(tabs') = {Len(tabs)}
         /\ returned'.value = Some(tabs'[Len(tabs')]) ]_vars

\* add_tab has just added a third tab behind two others.
C26_Witness ==
  /\ returned.op = "add_tab"
  /\ Len(tabs) = 3
  /\ active_tab_index = 2
  /\ tabs[3].id = returned.args[1]

\* ------------------------------------------------------------------ C27
\* The tabs as they are after one field of the tab with the id was set.
WithTitle(ts, id, title) ==
  [i \in 1..Len(ts) |-> IF ts[i].id = id THEN [ts[i] EXCEPT !.title = title] ELSE ts[i]]

WithModified(ts, id, modified) ==
  [i \in 1..Len(ts) |->
     IF ts[i].id = id THEN [ts[i] EXCEPT !.is_modified = modified] ELSE ts[i]]

\* C27: update_tab_title and update_tab_modified return true exactly when a
\* tab with the id exists; on true only the named field of that tab changes
\* (the other fields, the order and the active index stay), on false nothing
\* changes.
C27_UpdateTouchesOneField ==
  [][ /\ Calls({"update_tab_title", "update_tab_modified"})
        => /\ returned'.value = (returned'.args[1] \in IdsInUse)
           /\ active_tab_index' = active_tab_index
           /\ ~returned'.value => tabs' = tabs
      /\ Calls({"update_tab_title"}) /\ returned'.value
        => tabs' = WithTitle(tabs, returned'.args[1], returned'.args[2])
      /\ Calls({"update_tab_modified"}) /\ returned'.value
        => tabs' = WithModified(tabs, returned'.args[1], returned'.args[2]) ]_vars

\* update_tab_title has just renamed an unmodified tab that stands next to a
\* tab with the other title.
C27_Witness ==
  /\ returned.op = "update_tab_title"
  /\ returned.value = TRUE
  /\ Len(tabs) >= 2
  /\ \E i, j \in 1..Len(tabs) :
       /\ tabs[i].id = returned.args[1]
       /\ tabs[i].title = returned.args[2]
       /\ ~tabs[i].is_modified
       /\ tabs[j].title # returned.args[2]

\* ------------------------------------------------------------------ C28
\* C28: clear removes every tab and resets the active index to 0, after which
\* active_tab() is None; on an empty manager next_tab and previous_tab return
\* None and leave the manager empty with active index 0.
C28_ClearAndEmptyNavigation ==
  [][ /\ Calls({"clear"})
        => tabs' = <<>> /\ active_tab_index' = 0 /\ active_tab(Manager)' = None
      /\ Calls({"next_tab", "previous_tab"}) /\ tabs = <<>>
        => returned'.value = None /\ tabs' = <<>> /\ active_tab_index' = 0 ]_vars

\* next_tab or previous_tab has just been refused on a manager without tabs.
C28_Witness ==
  /\ returned.op \in {"next_tab", "previous_tab"}
  /\ returned.value = None
  /\ tabs = <<>>
  /\ active_tab_index = 0

\* ------------------------------------------------------------------ C29
\* A line that begins with a two-byte character: "é}".
LeadingTwoByte == <<195, 169, 125>>

\* The most lines of a body in the header specification.
MaxHeaderLines == 2

\* The bodies that follow the header block: some begin with a multi-byte
\* character, some hold a separator of their own.
HeaderBodies == SeqsUpTo({RecordA, LeadingTwoByte, ChunkFraming}, MaxHeaderLines)

\* The requests that read the response from the socket themselves.
SocketRequests == {r \in Requests : r.api_url = LocalUrl /\ r.api_key = NoKey}

\* The two header loops alone, up to the point where the body begins.
HeadersInit == InitWith(SocketRequests, HeaderBodies)

HeadersNext ==
  \/ CallRaw \/ RawConnect \/ RawWrite \/ RawHeaders
  \/ CallDirect \/ DirectConnect \/ DirectWrite \/ DirectHeaders

HeadersSpec == HeadersInit /\ [][HeadersNext]_vars

\* The header loop has found the separator and left the rest in the buffer.
HeadersStripped ==
  \/ path = "raw" /\ reader = "body"
  \/ path = "direct" /\ pc = "streaming"

\* C29: when the header loop ends, what it leaves for the line framer together
\* with what is still to be read is exactly what follows the first \r\n\r\n of
\* the response (the body, the header block ending with that separator),
\* however the response was split into reads.
C29_BodyStartsAfterSeparator ==
  HeadersStripped => buffer \o from_utf8_lossy(wire) = from_utf8_lossy(body)

\* ------------------------------------------------------------------ C30
\* The steps of the reader context: the thread that owns the connection.
ReaderStep ==
  \/ RawConnect \/ RawWrite \/ RawHeaders \/ RawLine \/ RawRead
  \/ HttpLine \/ HttpRead
  \/ DirectRead

\* The steps of the consumer: the caller polling the stream it was given.
ConsumerStep == HttpPoll \/ RawPoll \/ DirectLine \/ DirectRecv

\* The bodies followed to their end: lines that decode, a line that does not
\* and chunk framing, in any order.
TerminationBodies ==
  {ls \in SeqsUpTo({RecordA, BrokenLine, ChunkFraming}, MaxLines) :
     \A i, j \in 1..Len(ls) : ls[i] = ls[j] => i = j}

FairInit == InitWith(Requests, TerminationBodies)

\* The streams with the reader thread scheduled whenever it can run and the
\* caller polling whenever there is something to poll for; the caller stays
\* free to drop the stream.
FairSpec == FairInit /\ [][Next]_vars /\ WF_vars(ReaderStep) /\ WF_vars(ConsumerStep)

\* A read of the body loop has returned Ok(0): the reader has left its loop
\* with nothing left on the connection and without a failure.
EofRead ==
  /\ path \in {"raw", "http", "direct"}
  /\ reader = "stopped"
  /\ err = "none"
  /\ wire = <<>>

\* The caller's sequence is over: it returned None, or the caller dropped it.
SequenceOver == pc \in {"ended", "cancelled"}

\* C30: once a read has reported the end of input, the caller's sequence
\* eventually ends and the reader context has terminated for good; after the
\* end no further item is yielded.
C30_EofTerminates ==
  /\ EofRead ~> (SequenceOver /\ reader = "stopped")
  /\ [][ /\ reader = "stopped" => reader' = "stopped"
         /\ SequenceOver => SequenceOver' /\ yielded' = yielded ]_vars

\* A stream that delivered a record and then ended on the end of input.
C30_Witness ==
  /\ EofRead
  /\ pc = "ended"
  /\ Delivers
  /\ yielded # <<>>

\* ------------------------------------------------------------------ C34
\* The ids of a tab list, in order.
IdsOf(ts) == [i \in 1..Len(ts) |-> ts[i].id]

\* The tab close_tab(i) on the active tab i is to activate: the one that was
\* at index i - 1, or the one that was at index 1 when i is 0.
Successor(ts, i) == IF i = 0 THEN ts[2] ELSE ts[i]

\* C34: close_tab on the active tab, with at least two tabs, returns the closed
\* tab, keeps the other tabs in their order, and activates the tab that was at
\* index i - 1 (at index 1 when i is 0).
C34_CloseActiveActivatesNeighbour ==
  [][ /\ Calls({"close_tab"})
      /\ Len(tabs) >= 2
      /\ returned'.args[1] = active_tab_index
      => /\ returned'.value = Some(tabs[active_tab_index + 1])
         /\ IdsOf(tabs') = SelectSeq(IdsOf(tabs), LAMBDA id : id # tabs[active_tab_index + 1].id)
         /\ active_tab(Manager)' # None
         /\ active_tab(Manager)'[1].id = Successor(tabs, active_tab_index).id
         /\ active_tab(Manager)'[1].is_active ]_vars

\* close_tab has just closed the active tab at index 1 of three: the tab in
\* front of it is active now and the tab behind it has moved down.
C34_Witness ==
  /\ returned.op = "close_tab"
  /\ returned.args = <<1>>
  /\ returned.value # None
  /\ returned.value[1].is_active
  /\ Len(tabs) = 2
  /\ active_tab_index = 0
  /\ tabs[1].is_active

\* ------------------------------------------------------------------ C35
\* C35: close_tab_by_id with the id of one of at least two tabs returns that
\* tab and leaves exactly the other tabs, in their order; with an id no tab
\* has it returns None and leaves the manager unchanged.
C35_CloseByIdRemovesThatTab ==
  [][ /\ Calls({"close_tab_by_id"}) /\ returned'.args[1] \in IdsInUse /\ Len(tabs) >= 2
        => /\ returned'.value # None
           /\ returned'.value[1].id = returned'.args[1]
           /\ returned'.value[1] \in Range(tabs)
           /\ IdsOf(tabs') = SelectSeq(IdsOf(tabs), LAMBDA id : id # returned'.args[1])
      /\ Calls({"close_tab_by_id"}) /\ returned'.args[1] \notin IdsInUse
        => returned'.value = None /\ ManagerUnchanged ]_vars

\* close_tab_by_id has just closed the middle one of three tabs.
C35_Witness ==
  /\ returned.op = "close_tab_by_id"
  /\ returned.value # None
  /\ Len(tabs) = 2
  /\ returned.value[1].id > tabs[1].id
  /\ returned.value[1].id < tabs[2].id

\* ------------------------------------------------------------------ C37
\* Most bytes the connection loses at the end of a body.
MaxUnsent == 1

\* Responses sent whole and responses that stop short of the end of their
\* last line.
TailInit == InitCut(Requests, TerminationBodies, 0..MaxUnsent)

TailSpec == TailInit /\ [][Next]_vars

\* What follows the last newline of a text.
RECURSIVE AfterLines(_)
AfterLines(text) == IF HasLine(text) THEN AfterLines(RestAfterLine(text)) ELSE text

\* The response stops short of its end and what was sent does not end with a
\* newline: its last line is unterminated.
Unterminated == unsent >= 1 /\ sent # <<>> /\ Last(sent) # 10

\* C37: when the response ends without a newline after its last line, that
\* line is never handed to the decoder and never yielded, the lines handed
\* over are the terminated ones, in order, an error item needs an I/O
\* failure, and once the end of input is reached the rest is still in the
\* buffer, undecoded.
C37_UnterminatedTailDiscarded ==
  Unterminated =>
    /\ IsPrefix(forwarded, SingleFeed(sent))
    /\ Decodable(Last(lines)) =>
         /\ Last(lines) \notin Range(forwarded)
         /\ OkItem(Last(lines)) \notin Range(yielded)
    /\ \A i \in 1..Len(yielded) : ~yielded[i].ok => err = "read"
    /\ StreamComplete => forwarded = SingleFeed(sent)
    /\ StreamComplete => buffer = AfterLines(from_utf8_lossy(sent)) /\ buffer # <<>>

\* A body of a line that does not parse and a record without its newline has
\* been streamed to the end of input by the HTTP-client path: the stream has
\* ended without an item and the record is what is left in the buffer.
C37_Witness ==
  /\ unsent = 1
  /\ lines = <<BrokenLine, RecordA>>
  /\ path = "http"
  /\ pc = "ended"
  /\ err = "none"
  /\ yielded = <<>>
  /\ forwarded = <<BrokenLine>>
  /\ buffer = RecordA

\* ------------------------------------------------------------------ C38
\* The step is the framer asking for more bytes: a read of the body loop on the
\* raw-socket and HTTP-client paths (bytes, the end of input or a failure), a
\* recv on the hand-off channel on the direct path.
FramerRead ==
  \/ /\ path \in {"raw", "http"}
     /\ reader = "body"
     /\ wire' # wire \/ (reader' = "stopped" /\ buffer' = buffer)
  \/ /\ path = "direct"
     /\ pc = "streaming"
     /\ pc' # "cancelled"
     /\ Len(chan') < Len(chan) \/ pc' = "ended"

\* The step is the framer cutting a line off the front of its buffer.
FramerLine == HasLine(buffer) /\ buffer' = RestAfterLine(buffer)

\* The headers are behind: the buffer is the framer's.
Framing ==
  \/ path \in {"raw", "http"} /\ reader = "body"
  \/ path = "direct" /\ pc = "streaming"

\* C38: the framer asks for more bytes only when its buffer holds no newline,
\* and while the buffer holds one the only thing the framer does is cut the
\* first line off it.
C38_DrainBeforeRead ==
  [][ /\ FramerRead => ~HasLine(buffer)
      /\ (Framing /\ HasLine(buffer) /\ buffer' # buffer) => FramerLine ]_vars

\* A line is buffered on the direct path while the channel holds more bytes:
\* the line is to be cut before the channel is asked.
C38_Witness ==
  /\ path = "direct"
  /\ pc = "streaming"
  /\ HasLine(buffer)
  /\ chan # <<>>
  /\ Head(chan).ok
  /\ forwarded # <<>>

\* ------------------------------------------------------------------ C36
\* Chunked transfer encoding (RFC 9112, 7.1), as the server writes it: each
\* chunk is its size in hex, CRLF, the data, CRLF; a chunk of size 0 ends it.
RecordB == <<123, 98, 125>>

\* Most records of a payload and most places a payload is cut into chunks at.
MaxRecords == 2

MaxCuts == 1

CRLF == <<13, 10>>

HexDigit(d) == IF d < 10 THEN 48 + d ELSE 87 + d

Hex(n) == IF n < 16 THEN <<HexDigit(n)>> ELSE <<HexDigit(n \div 16), HexDigit(n % 16)>>

HexValue(c) == IF c \in 48..57 THEN c - 48 ELSE IF c \in 97..102 THEN c - 87 ELSE c - 55

RECURSIVE HexNumber(_)
HexNumber(s) == IF s = <<>> THEN 0 ELSE HexNumber(SubSeq(s, 1, Len(s) - 1)) * 16 + HexValue(Last(s))

\* The payload split into chunks after the given positions.
RECURSIVE ChunksAt(_, _)
ChunksAt(payload, cuts) ==
  IF cuts = {} THEN <<payload>>
  ELSE LET c == CHOOSE x \in cuts : \A y \in cuts : x <= y
       IN <<SubSeq(payload, 1, c)>>
          \o ChunksAt(SubSeq(payload, c + 1, Len(payload)), {y - c : y \in cuts \ {c}})

RECURSIVE EncodeChunks(_)
EncodeChunks(chunks) ==
  IF chunks = <<>> THEN Hex(0) \o CRLF \o CRLF
  ELSE Hex(Len(Head(chunks))) \o CRLF \o Head(chunks) \o CRLF \o EncodeChunks(Tail(chunks))

Encode(payload, cuts) ==
  IF payload = <<>> THEN EncodeChunks(<<>>) ELSE EncodeChunks(ChunksAt(payload, cuts))

\* The payload of a chunked body: what a chunked decoder makes of it.
RECURSIVE Dechunk(_)
Dechunk(text) ==
  LET eol  == Find(text, CRLF)
      size == HexNumber(SubSeq(text, 1, eol - 1))
  IN IF eol = 0 \/ size = 0 THEN <<>>
     ELSE SubSeq(text, eol + 2, eol + 1 + size)
          \o Dechunk(SubSeq(text, eol + 2 + size + 2, Len(text)))

\* The pieces of a text that ends with a newline, one per newline.
RECURSIVE SplitLines(_)
SplitLines(text) ==
  IF ~HasLine(text) THEN <<>>
  ELSE <<SubSeq(text, 1, NewlinePos(text) - 1)>> \o SplitLines(RestAfterLine(text))

\* Payloads of newline-terminated records that decode.
Payloads ==
  {BodyOf([i \in 1..n |-> IF i % 2 = 1 THEN RecordA ELSE RecordB]) : n \in 0..MaxRecords}

CutSets(payload) ==
  {cuts \in SUBSET (1..(Len(payload) - 1)) : Cardinality(cuts) <= MaxCuts}

\* Chunked bodies: every payload, cut into chunks at up to MaxCuts places.
ChunkedBodies ==
  UNION {{SplitLines(Encode(payload, cuts)) : cuts \in CutSets(payload)} : payload \in Payloads}

ChunkedRequests == {r \in Requests : r.api = "stream_chat_completion_direct"}

ChunkedInit == InitWith(ChunkedRequests, ChunkedBodies)

\* The path on which the framer sees the body as the server wrote it.
ChunkedNext ==
  \/ CallDirect \/ DirectConnect \/ DirectWrite \/ DirectHeaders
  \/ DirectRead \/ DirectLine \/ DirectRecv
  \/ Cancel

ChunkedSpec == ChunkedInit /\ [][ChunkedNext]_vars

\* C36: when a chunked body has been streamed to its end without a failure,
\* the deltas yielded are the records of its payload, in order, wherever the
\* chunks are cut.
C36_ChunkedPayloadDelivered ==
  (path = "direct" /\ pc = "ended" /\ err = "none") =>
    yielded = DecodedItems(SingleFeed(Dechunk(body)))

\* ------------------------------------------------------------------ C33
\* The step takes bytes off the connection: a socket read that returned data.
SocketRead == Len(wire') < Len(wire)

\* The reader thread exists and is in one of its read loops.
ReaderReading == reader \in {"headers", "body"}

\* C33: every socket read of a request, the reads that look for the
\* header/body separator included, is a step of the reader thread, and the
\* caller is never in a blocking connect, write or read of its own.
C33_ReadsOnReaderContext ==
  /\ [][SocketRead => ReaderReading]_vars
  /\ [](pc \notin {"connect", "write", "headers"})

\* ------------------------------------------------------------------ C32
\* Text is a sequence of tokens: single characters and the literal pieces of
\* the format strings.
DigitChars == <<"0", "1", "2", "3", "4", "5", "6", "7", "8", "9">>

\* usize's Display, for the lengths the model meets.
Digits(n) ==
  IF n < 10 THEN <<DigitChars[n + 1]>>
  ELSE <<DigitChars[(n \div 10) + 1], DigitChars[(n % 10) + 1]>>

CrLf == <<"\r\n">>

\* A second credential.
OtherKey == "sk2"

Keys == {NoKey, SomeKey, OtherKey}

\* DirectRequest with the credential written as a header when there is one.
DirectRequestWithKey(host, api_key, request_json) ==
  <<"POST /api/chat HTTP/1.1">> \o CrLf
  \o <<"Host: ">> \o host \o CrLf
  \o (IF api_key = NoKey THEN <<>> ELSE <<"Authorization: Bearer ", api_key>> \o CrLf)
  \o <<"Content-Type: application/json">> \o CrLf
  \o <<"Content-Length: ">> \o Digits(Len(request_json)) \o CrLf
  \o CrLf
  \o request_json

\* format!("POST /api/chat HTTP/1.1\r\nHost: {}\r\nContent-Type: ..\r\n
\* Content-Length: {}\r\n\r\n{}", &host, request_json.len(), request_json)
\* in stream_chat_completion_direct, whose _api_key is not used.
DirectRequest(host, api_key, request_json) ==
  <<"POST /api/chat HTTP/1.1">> \o CrLf
  \o <<"Host: ">> \o host \o CrLf
  \o <<"Content-Type: application/json">> \o CrLf
  \o <<"Content-Length: ">> \o Digits(Len(request_json)) \o CrLf
  \o CrLf
  \o request_json

\* The same format! in spawn_ollama_reader_thread(addr, host, request_json).
RawRequest(host, request_json) ==
  <<"POST /api/chat HTTP/1.1">> \o CrLf
  \o <<"Host: ">> \o host \o CrLf
  \o <<"Content-Type: application/json">> \o CrLf
  \o <<"Content-Length: ">> \o Digits(Len(request_json)) \o CrLf
  \o CrLf
  \o request_json

\* HttpRequest::builder().method(POST).uri(format!("{api_url}/api/chat"))
\*   .header("Content-Type", "application/json")
\*   .when_some(api_key, |b, k| b.header("Authorization", format!("Bearer {k}")))
\*   .body(..)
HttpRequestOf(api_url, api_key, request_json) ==
  [method  |-> "POST",
   uri     |-> api_url \o <<"/api/chat">>,
   headers |-> <<<<"Content-Type", <<"application/json">>>>>>
               \o (IF api_key = NoKey THEN <<>>
                   ELSE <<<<"Authorization", <<"Bearer ", api_key>>>>>>),
   body    |-> request_json]

\* url.host_str().unwrap_or("localhost")
HostOf(api_url) == IF HostStr(api_url) = <<>> THEN Localhost ELSE HostStr(api_url)

\* What a call puts on its transport: the bytes written to the raw socket, or
\* the request handed to the HTTP client.
Written(api, api_url, api_key, request_json) ==
  IF api = "stream_chat_completion_direct"
  THEN [transport |-> "raw", bytes |-> DirectRequest(HostOf(api_url), api_key, request_json)]
  ELSE IF UsesRawSocket(api_url, api_key)
  THEN [transport |-> "raw", bytes |-> RawRequest(HostOf(api_url), request_json)]
  ELSE [transport |-> "http", request |-> HttpRequestOf(api_url, api_key, request_json)]

\* serde_json::to_string(&request), for two requests.
RequestJsons == {<<"{", "}">>, <<"{", "m", "}">>}

RequestCalls ==
  { [op |-> "request", api |-> api, api_url |-> u, api_key |-> k, request_json |-> j] :
      api \in {"stream_chat_completion", "stream_chat_completion_direct"},
      u \in RoutingUrls, k \in Keys, j \in RequestJsons }

CallRequest ==
  /\ call.op = "request"
  /\ result = NoResult
  /\ result' = Returned(Written(call.api, call.api_url, call.api_key, call.request_json))
  /\ UNCHANGED <<call, streamVars, tabVars, toolVars>>

RequestInit == CallInit(RequestCalls)

RequestNext == CallRequest

RequestSpec == RequestInit /\ [][RequestNext]_vars

\* The values of the headers of that name.
HeaderValues(req, name) ==
  {req.headers[i][2] : i \in {j \in 1..Len(req.headers) : req.headers[j][1] = name}}

\* The text names a credential or an Authorization header.
MentionsCredential(text) ==
  \E i \in 1..Len(text) :
    text[i] \in (Keys \ {NoKey}) \cup {"Authorization", "Authorization: Bearer ", "Bearer "}

\* C32: the request handed to the HTTP client has an Authorization header
\* exactly when a credential is supplied, and then it is "Bearer " and the
\* credential; bytes written to a raw socket mention no credential and are
\* the same for every credential with which the call writes to a raw socket.
C32_CredentialHandling ==
  (call.op = "request" /\ result.returned) =>
    LET w == result.value IN
    /\ w.transport = "http" =>
         /\ (HeaderValues(w.request, "Authorization") # {}) <=> (call.api_key # NoKey)
         /\ call.api_key # NoKey =>
              HeaderValues(w.request, "Authorization") = {<<"Bearer ", call.api_key>>}
    /\ w.transport = "raw" =>
         /\ ~MentionsCredential(w.bytes)
         /\ \A k \in Keys :
              LET other == Written(call.api, call.api_url, k, call.request_json)
              IN other.transport = "raw" => other.bytes = w.bytes

\* stream_chat_completion_direct has written its request for a call that
\* carries a credential.
C32_Witness ==
  /\ call.op = "request"
  /\ result.returned
  /\ call.api = "stream_chat_completion_direct"
  /\ call.api_key = SomeKey
  /\ result.value.transport = "raw"

\* ------------------------------------------------------------------ C31
\* The objects of the request the stream variables stand for.
PerRequest ==
  [request |-> request, lines |-> lines, unsent |-> unsent, wire |-> wire,
   path |-> path, pc |-> pc, reader |-> reader, buffer |-> buffer, chan |-> chan,
   yielded |-> yielded, forwarded |-> forwarded, err |-> err, status |-> status,
   failure |-> failure]

\* A request that has not been called yet.
Uncalled(req, ls) ==
  [request |-> req, lines |-> ls, unsent |-> 0, wire |-> <<>>,
   path |-> "none", pc |-> "idle", reader |-> "none", buffer |-> <<>>, chan |-> <<>>,
   yielded |-> <<>>, forwarded |-> <<>>, err |-> "none", status |-> 0,
   failure |-> NoFailure]

\* The scheduler turns to the other request: from here on the stream
\* variables stand for its objects and peer for those of the request left.
\* Nothing of either request changes.
Switch ==
  /\ peer # NoPeer
  /\ peer' = PerRequest
  /\ request' = peer.request
  /\ lines' = peer.lines
  /\ unsent' = peer.unsent
  /\ wire' = peer.wire
  /\ path' = peer.path
  /\ pc' = peer.pc
  /\ reader' = peer.reader
  /\ buffer' = peer.buffer
  /\ chan' = peer.chan
  /\ yielded' = peer.yielded
  /\ forwarded' = peer.forwarded
  /\ err' = peer.err
  /\ status' = peer.status
  /\ failure' = peer.failure
  /\ UNCHANGED <<tabVars, toolVars, call, result>>

\* Two requests on any two paths, one answered with {a} and one with {b}.
PairRequests == Requests

PairInit ==
  /\ \E req \in PairRequests : peer = Uncalled(req, <<RecordB>>)
  /\ unsent = 0
  /\ call = NoCall
  /\ result = NoResult
  /\ request \in PairRequests
  /\ lines = <<RecordA>>
  /\ wire = <<>>
  /\ path = "none"
  /\ pc = "idle"
  /\ reader = "none"
  /\ buffer = <<>>
  /\ chan = <<>>
  /\ yielded = <<>>
  /\ forwarded = <<>>
  /\ err = "none"
  /\ status = 0
  /\ failure = NoFailure
  /\ TabsInit
  /\ ToolIdle

PairNext == Next \/ Switch

PairSpec == PairInit /\ [][PairNext]_vars

\* The bytes of the response to a request.
OwnBytes(r) == Range(from_utf8_lossy(HeaderBlock \o BodyOf(r.lines)))

\* Everything a request holds comes from its own connection: the bytes still
\* on it, in its buffer and in its channel, the lines framed and the deltas
\* in its channel and in its sequence.
Isolated(r) ==
  /\ Range(r.wire) \subseteq OwnBytes(r)
  /\ Range(r.buffer) \subseteq OwnBytes(r)
  /\ \A i \in 1..Len(r.forwarded) : r.forwarded[i] \in Range(r.lines)
  /\ \A i \in 1..Len(r.yielded) :
       r.yielded[i].ok => \E j \in 1..Len(r.lines) : r.yielded[i] = OkItem(r.lines[j])
  /\ \A i \in 1..Len(r.chan) :
       r.chan[i].ok =>
         IF r.path = "direct" THEN Range(r.chan[i].data) \subseteq OwnBytes(r)
         ELSE \E j \in 1..Len(r.lines) : r.chan[i] = OkItem(r.lines[j])

\* A step of one request leaves the objects of the other as they are.
OneRequestPerStep == peer' # peer => (peer' = PerRequest /\ PerRequest' = peer)

\* C31: with two requests active, whatever the interleaving, a step of one
\* changes no object of the other, and the bytes, lines and deltas each
\* request holds are those of its own response.
C31_RequestIsolation ==
  /\ [][OneRequestPerStep]_vars
  /\ [](Isolated(PerRequest) /\ Isolated(peer))

\* Both requests are streaming at once and both have yielded: each its own
\* record.
C31_Witness ==
  /\ peer # NoPeer
  /\ pc = "streaming"
  /\ peer.pc = "streaming"
  /\ yielded = <<OkItem(RecordA)>>
  /\ peer.yielded = <<OkItem(RecordB)>>
  /\ path = "direct"
  /\ peer.path = "http"

\* ------------------------------------------------------------------ create_directory tool
\* Paths are sequences of names. The directories of the model lie on one
\* chain a, a/b, a/b/c, ...
MaxDepth == 3

DirNames == <<"a", "b", "c", "d", "e">>

Chain(k) == SubSeq(DirNames, 1, k)

\* worktree.root_name() of the worktrees, by id.
RootNames == <<"w", "v">>

Front(s) == SubSeq(s, 1, Len(s) - 1)

Reverse(s) == [i \in 1..Len(s) |-> s[Len(s) + 1 - i]]

Least(S) == CHOOSE w \in S : \A v \in S : w <= v

ProjectPath(worktree_id, rel_path) == [worktree_id |-> worktree_id, path |-> rel_path]

\* An entry of a worktree; the root of a worktree is a directory entry.
Entry(worktree_id, rel_path, is_dir) ==
  [worktree_id |-> worktree_id, path |-> rel_path, is_dir |-> is_dir]

\* Project::entry_for_path
entry_for_path(p, pp) ==
  IF pp.path = <<>> THEN Some(Entry(pp.worktree_id, <<>>, TRUE))
  ELSE LET hits == {e \in p.entries : e.worktree_id = pp.worktree_id /\ e.path = pp.path}
       IN IF hits = {} THEN None ELSE Some(CHOOSE e \in hits : TRUE)

\* The worktrees whose root name the path starts with.
NamedWorktrees(p, parts) ==
  {w \in 1..p.worktrees : parts # <<>> /\ Head(parts) = RootNames[w]}

\* Project::find_project_path for a relative path: the path after the root
\* name of a worktree, else the path in the first worktree that has an entry
\* for it. An input RelPath::new rejects (absolute and outside the worktrees,
\* or with "..") is not found.
find_project_path(p, input) ==
  LET holding == {w \in 1..p.worktrees :
                    entry_for_path(p, ProjectPath(w, input.parts)) # None}
  IN IF ~input.relative THEN None
     ELSE IF NamedWorktrees(p, input.parts) # {}
     THEN Some(ProjectPath(Least(NamedWorktrees(p, input.parts)), Tail(input.parts)))
     ELSE IF holding # {} THEN Some(ProjectPath(Least(holding), input.parts))
     ELSE None

\* The else-branch of run: the path was not found.
Fallback(p, input) ==
  IF ~input.relative THEN None
  ELSE IF NamedWorktrees(p, input.parts) # {}
  THEN Some(ProjectPath(Least(NamedWorktrees(p, input.parts)), Tail(input.parts)))
  ELSE IF p.worktrees = 1 THEN Some(ProjectPath(1, input.parts))
  ELSE IF input.parts = <<>> THEN None
  ELSE LET parent == find_project_path(p, [relative |-> TRUE, parts |-> Front(input.parts)])
       IN IF parent = None THEN None
          ELSE Some(ProjectPath(parent[1].worktree_id,
                                parent[1].path \o <<Last(input.parts)>>))

\* Resolution that does not look whether the path found has an entry.
ResolutionUnchecked(p, input) ==
  LET found == find_project_path(p, input)
  IN IF found # None THEN [kind |-> "create", path |-> found]
     ELSE IF Fallback(p, input) = None THEN [kind |-> "outside", path |-> None]
     ELSE [kind |-> "create", path |-> Fallback(p, input)]

\* The first part of run: an early return (the directory exists, a file is in
\* its place, the path is outside the project) or the project path to create.
Resolution(p, input) ==
  LET found == find_project_path(p, input)
  IN IF found # None
     THEN LET entry == entry_for_path(p, found[1])
          IN IF entry # None
             THEN IF entry[1].is_dir THEN [kind |-> "exists", path |-> None]
                  ELSE [kind |-> "file", path |-> None]
             ELSE [kind |-> "create", path |-> found]
     ELSE IF Fallback(p, input) = None THEN [kind |-> "outside", path |-> None]
     ELSE [kind |-> "create", path |-> Fallback(p, input)]

\* The while loop: the parents without an entry, from the target upwards, up
\* to the first one that has an entry.
RECURSIVE MissingParents(_, _)
MissingParents(p, pp) ==
  IF pp.path = <<>> THEN <<>>
  ELSE LET parent == ProjectPath(pp.worktree_id, Front(pp.path))
       IN IF entry_for_path(p, parent) = None
          THEN <<parent>> \o MissingParents(p, parent)
          ELSE <<>>

\* parents.reverse(); parents
parents_to_create(p, pp) == Reverse(MissingParents(p, pp))

\* Project::create_entry(path, true, cx): the Task it returns is running from
\* the call on, whether or not it is awaited.
create_entry(log, pp) == Append(log, [kind |-> "start", path |-> pp])

\* The creations started and not finished.
Running ==
  {events[i].path : i \in {j \in 1..Len(events) : events[j].kind = "start"}}
    \ {events[i].path : i \in {j \in 1..Len(events) : events[j].kind # "start"}}

\* How the creation of a path ended: "ok", "err", or "none" while it has not.
Ended(pp) ==
  LET ends == {i \in 1..Len(events) : events[i].kind # "start" /\ events[i].path = pp}
  IN IF ends = {} THEN "none" ELSE events[CHOOSE i \in ends : TRUE].kind

\* The values run returns.
AlreadyExists == [ok |-> TRUE, text |-> "Directory already exists"]

ExistsAsFile == [ok |-> FALSE, text |-> "Cannot create directory: already exists as a file"]

OutsideProject == [ok |-> FALSE, text |-> "Path to create was outside the project"]

Created == [ok |-> TRUE, text |-> "Created directory"]

CreateFailed == [ok |-> FALSE, text |-> "Creating directory"]

ParentFailed == [ok |-> FALSE, text |-> "create_entry"]

Cancelled == [ok |-> FALSE, text |-> "Create directory cancelled by user"]

EarlyReturn(kind) ==
  IF kind = "exists" THEN AlreadyExists
  ELSE IF kind = "file" THEN ExistsAsFile
  ELSE OutsideProject

\* run up to cx.spawn: the resolution with its early returns, the parents to
\* create, and the create_entry of the target.
Run ==
  /\ task.pc = "idle"
  /\ LET r == Resolution(project, task.input) IN
       IF r.kind = "create"
       THEN /\ task' = [task EXCEPT !.pc = "parents", !.project_path = r.path,
                                    !.parents = parents_to_create(project, r.path[1])]
            /\ events' = create_entry(events, r.path[1])
            /\ output' = output
       ELSE /\ task' = [task EXCEPT !.pc = "done"]
            /\ output' = Some(EarlyReturn(r.kind))
            /\ events' = events
  /\ UNCHANGED <<project, call, result, streamVars, tabVars>>

\* for parent_path in parents_to_create: project.create_entry(parent_path, ..)
CreateParent ==
  /\ task.pc = "parents"
  /\ task.parents # <<>>
  /\ events' = create_entry(events, Head(task.parents))
  /\ task' = [task EXCEPT !.pc = "await_parent"]
  /\ UNCHANGED <<project, output, call, result, streamVars, tabVars>>

\* create_parent.await?
AwaitParent ==
  /\ task.pc = "await_parent"
  /\ Ended(Head(task.parents)) # "none"
  /\ IF Ended(Head(task.parents)) = "ok"
     THEN /\ task' = [task EXCEPT !.pc = "parents", !.parents = Tail(@)]
          /\ output' = output
     ELSE /\ task' = [task EXCEPT !.pc = "done"]
          /\ output' = Some(ParentFailed)
  /\ UNCHANGED <<project, events, call, result, streamVars, tabVars>>

\* futures::select! on the target's create_entry and cancelled_by_user().
AwaitTarget ==
  /\ task.pc = "parents"
  /\ task.parents = <<>>
  /\ \/ /\ Ended(task.project_path[1]) = "ok"
        /\ output' = Some(Created)
     \/ /\ Ended(task.project_path[1]) = "err"
        /\ output' = Some(CreateFailed)
     \/ output' = Some(Cancelled)
  /\ task' = [task EXCEPT !.pc = "done"]
  /\ UNCHANGED <<project, events, call, result, streamVars, tabVars>>

\* The entries of a directory path and of the directories above it.
DirsUpTo(pp) ==
  {Entry(pp.worktree_id, SubSeq(pp.path, 1, k), TRUE) : k \in 1..Len(pp.path)}

\* A file stands where the path or one of the directories above it should be.
Blocked(p, pp) ==
  \E e \in p.entries :
    /\ e.worktree_id = pp.worktree_id
    /\ ~e.is_dir
    /\ IsPrefix(e.path, pp.path)

\* A creation that is running finishes on the background executor: the
\* directory, with the directories above it, is there, or the file system
\* refused.
CreateEntryFinishes ==
  /\ \E pp \in Running :
       \/ /\ ~Blocked(project, pp)
          /\ project' = [project EXCEPT !.entries = @ \cup DirsUpTo(pp)]
          /\ events' = Append(events, [kind |-> "ok", path |-> pp])
       \/ /\ project' = project
          /\ events' = Append(events, [kind |-> "err", path |-> pp])
  /\ UNCHANGED <<task, output, call, result, streamVars, tabVars>>

\* The inputs: a path of the chain, alone or after the root name of the first
\* worktree, and a path RelPath::new rejects.
ToolInputs ==
  {[relative |-> TRUE, parts |-> Chain(k)] : k \in 1..MaxDepth}
    \cup {[relative |-> TRUE, parts |-> <<RootNames[1]>> \o Chain(k)] : k \in 0..MaxDepth}
    \cup {[relative |-> FALSE, parts |-> Chain(1)]}

\* The projects: one or two worktrees, the first holding the chain down to some
\* depth, its last entry a directory or a file.
Projects ==
  {[worktrees |-> n,
    entries |-> {Entry(1, Chain(k), k < depth \/ is_dir) : k \in 1..depth}] :
      n \in {1, 2}, depth \in 0..MaxDepth, is_dir \in BOOLEAN}

ToolInit ==
  /\ NoStream({NoCall})
  /\ project \in Projects
  /\ \E input \in ToolInputs :
       task = [pc |-> "idle", input |-> input, project_path |-> None, parents |-> <<>>]
  /\ events = <<>>
  /\ output = None

ToolNext == Run \/ CreateParent \/ AwaitParent \/ AwaitTarget \/ CreateEntryFinishes

ToolSpec == ToolInit /\ [][ToolNext]_vars

\* ------------------------------------------------------------------ C39
\* The entries, roots included, that an input path names: by its path in a
\* worktree, or by that path after the worktree's root name.
AllEntries(p) == p.entries \cup {Entry(w, <<>>, TRUE) : w \in 1..p.worktrees}

NamedBy(p, input) ==
  {e \in AllEntries(p) :
     /\ input.relative
     /\ \/ input.parts = <<RootNames[e.worktree_id]>> \o e.path
        \/ input.parts = e.path /\ NamedWorktrees(p, input.parts) = {}}

\* run has just gone through its synchronous part.
RunStep == task.pc = "idle" /\ task'.pc # "idle"

\* run has returned without creating anything.
Returns(value) == output' = Some(value) /\ task'.pc = "done" /\ events' = <<>>

\* run has returned one of the three results that come before any creation.
ReturnedEarly == output \in {Some(AlreadyExists), Some(ExistsAsFile), Some(OutsideProject)}

\* What run does on an existing directory, an existing file and a path that is
\* no path of the project.
EarlyReturns ==
  RunStep =>
    /\ (\E e \in NamedBy(project, task.input) : e.is_dir) => Returns(AlreadyExists)
    /\ (\E e \in NamedBy(project, task.input) : ~e.is_dir) => Returns(ExistsAsFile)
    /\ ~task.input.relative => Returns(OutsideProject)

\* After such a return nothing is issued and nothing changes in the project.
NothingAfterEarlyReturn == ReturnedEarly => UNCHANGED <<project, events, output>>

\* C39: on a path that names an existing directory run returns that the
\* directory already exists, on one that names an existing file it returns an
\* error, on one that is not a path of the project it returns an error; in
\* each case, and whenever the error is that the path is outside the project,
\* no create_entry is ever issued and the project keeps its entries.
C39_ExistingEntryNotCreated ==
  /\ [][EarlyReturns]_vars
  /\ [][NothingAfterEarlyReturn]_vars
  /\ [](ReturnedEarly => events = <<>>)

\* run was asked for a/b where a/b is a file: it has returned the error and
\* issued nothing.
C39_Witness ==
  /\ task.pc = "done"
  /\ task.input = [relative |-> TRUE, parts |-> Chain(2)]
  /\ Entry(1, Chain(2), FALSE) \in project.entries
  /\ output = Some(ExistsAsFile)
  /\ events = <<>>

\* ------------------------------------------------------------------ C40
\* The step issues a create_entry.
StartStep == Len(events') = Len(events) + 1 /\ Last(events').kind = "start"

\* Every directory above the path has an entry.
AncestorsExist(p, pp) ==
  \A k \in 0..(Len(pp.path) - 1) :
    entry_for_path(p, ProjectPath(pp.worktree_id, SubSeq(pp.path, 1, k))) # None

\* C40: a creation is started only when every directory above its path
\* exists and no other creation is in flight: the missing ancestors are
\* created from the root down, one after the other, and the target after all
\* of them.
C40_AncestorsBeforeTarget ==
  [][ StartStep =>
        /\ AncestorsExist(project, Last(events').path)
        /\ Running = {} ]_vars

====
